---- MODULE Spec2Model ----
(***************************************************************************)
(* jt: selector evaluation and table rendering.                            *)
(*                                                                         *)
(* Text is modelled as a sequence of one-character strings, so that the    *)
(* string operations of the code (TrimPrefix, ReplaceAll, Split, Trim,     *)
(* Atoi, sort.Strings, ...) are computed character by character.           *)
(*                                                                         *)
(* A decoded value (Go's interface{}) is a tagged tuple:                   *)
(*   <<"null">>, <<"bool", b>>, <<"num", n>>, <<"str", text>>,             *)
(*   <<"seq", <<v1, ..., vn>> >>      ([]interface{})                      *)
(*   <<"map", [keys -> values]>>      (map[string]interface{})             *)
(***************************************************************************)
EXTENDS Integers, Sequences, FiniteSets, TLC

VARIABLES
    build,       \* which source file's program runs: "main", "p001", "p000"
    data,        \* the decoded input (parseInput's first result)
    isMultiDoc,  \* parseInput's second result
    selector,    \* the selector argument, as text
    format,      \* -format
    details,     \* -d
    maxWidth,    \* -w
    isTerm,      \* isTerminal(): standard output is a character device
    iter,        \* the order in which Go's range visits map keys in this run
    pc,          \* position in main: "start", "walk", "selected", "exited", "rendered"
    path,        \* applySelector: the split selector
    pos,         \* applySelector: index of the next element of path (1-based)
    current,     \* applySelector: current
    fullPath,    \* applySelector: fullPath
    outcome,     \* applySelector's result, or the error it exited with
    rendered,    \* what render handed to the table backend
    output,      \* the lines of text the table backend writes in this run
    termWidth,   \* getTerminalWidth()
    pager,       \* the pager's model m (the fields of struct model)
    opened       \* history: term, matches and cursor when the search box opened

vars == <<build, data, isMultiDoc, selector, format, details, maxWidth, isTerm,
          iter, pc, path, pos, current, fullPath, outcome, rendered,
          output, termWidth, pager, opened>>

inputs == <<build, data, isMultiDoc, selector, format, details, maxWidth, isTerm, iter,
            output, termWidth>>

\* the pager
view == <<pager, opened>>

----------------------------------------------------------------------------
(* Bounds of the model *)

MaxSteps == 3
MaxDocs == 2

----------------------------------------------------------------------------
(* Values *)

Null == <<"null">>
Bool(b) == <<"bool", b>>
Num(n) == <<"num", n>>
Str(s) == <<"str", s>>
SeqV(s) == <<"seq", s>>
MapV(f) == <<"map", f>>

IsSeq(v) == v[1] = "seq"
IsMap(v) == v[1] = "map"
IsScalar(v) == ~IsSeq(v) /\ ~IsMap(v)

Elems(v) == v[2]
Fields(v) == v[2]

----------------------------------------------------------------------------
(* Text helpers: package strings and strconv *)

HasPrefix(s, c) == Len(s) >= 1 /\ s[1] = c

HasSuffix(s, c) == Len(s) >= 1 /\ s[Len(s)] = c

\* strings.TrimPrefix(s, ".")
TrimPrefixDot(s) == IF HasPrefix(s, ".") THEN Tail(s) ELSE s

\* strings.ReplaceAll(s, old, new) for a one-character old
RECURSIVE ReplaceAll(_, _, _)
ReplaceAll(s, old, new) ==
    IF s = <<>> THEN <<>>
    ELSE (IF Head(s) = old THEN new ELSE <<Head(s)>>) \o ReplaceAll(Tail(s), old, new)

\* strings.Split(s, sep) for a one-character sep: always at least one piece
RECURSIVE SplitFrom(_, _, _)
SplitFrom(s, sep, piece) ==
    IF s = <<>> THEN <<piece>>
    ELSE IF Head(s) = sep THEN <<piece>> \o SplitFrom(Tail(s), sep, <<>>)
    ELSE SplitFrom(Tail(s), sep, Append(piece, Head(s)))

Split(s, sep) == SplitFrom(s, sep, <<>>)

\* strings.TrimLeft / TrimRight / Trim with a cutset
RECURSIVE TrimLeft(_, _)
TrimLeft(s, cutset) ==
    IF s # <<>> /\ Head(s) \in cutset THEN TrimLeft(Tail(s), cutset) ELSE s

RECURSIVE TrimRight(_, _)
TrimRight(s, cutset) ==
    IF s # <<>> /\ s[Len(s)] \in cutset
    THEN TrimRight(SubSeq(s, 1, Len(s) - 1), cutset)
    ELSE s

Trim(s, cutset) == TrimRight(TrimLeft(s, cutset), cutset)

Digits == {"0", "1", "2", "3", "4", "5", "6", "7", "8", "9"}

DigitVal(c) ==
    CASE c = "0" -> 0 [] c = "1" -> 1 [] c = "2" -> 2 [] c = "3" -> 3 [] c = "4" -> 4
      [] c = "5" -> 5 [] c = "6" -> 6 [] c = "7" -> 7 [] c = "8" -> 8 [] c = "9" -> 9

RECURSIVE DecimalValue(_, _)
DecimalValue(s, acc) ==
    IF s = <<>> THEN acc ELSE DecimalValue(Tail(s), 10 * acc + DigitVal(Head(s)))

\* strconv.Atoi: an optional sign, then one or more decimal digits and nothing else.
\* Texts here are far too short to leave the range of int.
Atoi(s) ==
    LET signed == s # <<>> /\ Head(s) \in {"+", "-"}
        body == IF signed THEN Tail(s) ELSE s
    IN IF body = <<>> \/ \E i \in 1..Len(body) : body[i] \notin Digits
       THEN [ok |-> FALSE, val |-> 0]
       ELSE [ok |-> TRUE,
             val |-> IF signed /\ Head(s) = "-"
                     THEN 0 - DecimalValue(body, 0)
                     ELSE DecimalValue(body, 0)]

----------------------------------------------------------------------------
(* applySelector (main.go) *)

Returned(v) == [status |-> "ok", val |-> v, kind |-> "none", at |-> <<>>]

\* fmt.Fprintf(os.Stderr, ...) followed by os.Exit(1): the kind of message and
\* the path it names
Exited(kind, at) == [status |-> "exit", val |-> Null, kind |-> kind, at |-> at]

NoOutcome == [status |-> "none", val |-> Null, kind |-> "none", at |-> <<>>]

\* the split of the key-only program: brackets are not set apart
splitSelectorNoBrackets(sel) == Split(TrimPrefixDot(sel), ".")

\* the selector after normalisation, split into path elements
splitSelector(sel) == Split(ReplaceAll(TrimPrefixDot(sel), "[", <<".", "[">>), ".")

\* the error names the failing step alone
extendPathLastOnly(fp, key) == key

\* fullPath after the loop has taken up key
extendPath(fp, key) == IF fp = <<>> THEN key ELSE fp \o <<".">> \o key

isIndexKey(key) == HasPrefix(key, "[") /\ HasSuffix(key, "]")

\* the bounds check lets index = len through, and the element access panics
indexStepOffByOne(cur, key, fp) ==
    LET indexStr == Trim(key, {"[", "]"})
        index == Atoi(indexStr)
    IN IF ~index.ok THEN Exited("InvalidIndex", fp)
       ELSE IF ~IsSeq(cur) THEN Exited("NotAnArray", fp)
       ELSE IF index.val < 0 \/ index.val > Len(Elems(cur))
            THEN Exited("IndexOutOfBounds", fp)
       ELSE IF index.val = Len(Elems(cur)) THEN Exited("panic", fp)
       ELSE Returned(Elems(cur)[index.val + 1])

\* the type of current is checked before the index text is parsed
indexStepTypeFirst(cur, key, fp) ==
    LET indexStr == Trim(key, {"[", "]"})
        index == Atoi(indexStr)
    IN IF ~IsSeq(cur) THEN Exited("NotAnArray", fp)
       ELSE IF ~index.ok THEN Exited("InvalidIndex", fp)
       ELSE IF index.val < 0 \/ index.val >= Len(Elems(cur))
            THEN Exited("IndexOutOfBounds", fp)
       ELSE Returned(Elems(cur)[index.val + 1])

\* one iteration of the loop for a non-empty key, fullPath already extended:
\* the new current, or the exit
indexStep(cur, key, fp) ==
    LET indexStr == Trim(key, {"[", "]"})
        index == Atoi(indexStr)
    IN IF ~index.ok THEN Exited("InvalidIndex", fp)
       ELSE IF ~IsSeq(cur) THEN Exited("NotAnArray", fp)
       ELSE IF index.val < 0 \/ index.val >= Len(Elems(cur))
            THEN Exited("IndexOutOfBounds", fp)
       ELSE Returned(Elems(cur)[index.val + 1])

\* the map is read without the exists check: a missing key yields nil
keyStepNoExistsCheck(cur, key, fp) ==
    IF ~IsMap(cur) THEN Exited("NotAnObject", fp)
    ELSE IF key \notin DOMAIN Fields(cur) THEN Returned(Null)
    ELSE Returned(Fields(cur)[key])

keyStep(cur, key, fp) ==
    IF ~IsMap(cur) THEN Exited("NotAnObject", fp)
    ELSE IF key \notin DOMAIN Fields(cur) THEN Exited("KeyNotFound", fp)
    ELSE Returned(Fields(cur)[key])

loopBody(cur, key, fp) ==
    IF isIndexKey(key) THEN indexStep(cur, key, fp) ELSE keyStep(cur, key, fp)

\* the loop from element i of p on
RECURSIVE walk(_, _, _, _)
walk(cur, p, i, fp) ==
    IF i > Len(p) THEN Returned(cur)
    ELSE IF p[i] = <<>> THEN walk(cur, p, i + 1, fp)
    ELSE LET nfp == extendPath(fp, p[i])
             r == loopBody(cur, p[i], nfp)
         IN IF r.status = "exit" THEN r ELSE walk(r.val, p, i + 1, nfp)

\* the root is a slice and the selector does not begin with an index
fansOut(d, sel) == IsSeq(d) /\ ~HasPrefix(TrimPrefixDot(sel), "[")

\* the first exit among per-document outcomes, or the slice of their values
collect(rs) ==
    IF \E i \in 1..Len(rs) : rs[i].status = "exit"
    THEN rs[CHOOSE i \in 1..Len(rs) :
                /\ rs[i].status = "exit"
                /\ \A j \in 1..(i - 1) : rs[j].status = "ok"]
    ELSE Returned(SeqV([i \in 1..Len(rs) |-> rs[i].val]))

RECURSIVE applySelector(_, _)
applySelector(d, sel) ==
    IF sel = <<".">> THEN Returned(d)
    ELSE IF fansOut(d, sel)
    THEN collect([i \in 1..Len(Elems(d)) |-> applySelector(Elems(d)[i], sel)])
    ELSE walk(d, splitSelector(sel), 1, <<>>)

----------------------------------------------------------------------------
(* applySelector of the key-only program (part_001) *)

RECURSIVE Join(_, _)
Join(parts, sep) ==
    IF parts = <<>> THEN <<>>
    ELSE IF Len(parts) = 1 THEN parts[1]
    ELSE parts[1] \o sep \o Join(Tail(parts), sep)

\* one iteration of its loop at element i of p (1-based here, 0-based in Go:
\* path[:i] of the code is the first i - 1 elements, path[:i+1] the first i)
keyOnlyStep(cur, p, i) ==
    IF ~IsMap(cur) THEN Exited("NotAnObject", Join(SubSeq(p, 1, i - 1), <<".">>))
    ELSE IF p[i] \notin DOMAIN Fields(cur)
         THEN Exited("KeyNotFound", Join(SubSeq(p, 1, i), <<".">>))
    ELSE Returned(Fields(cur)[p[i]])

----------------------------------------------------------------------------
(* The selection written out in main of the first program (part_000) *)

topLevelSelect(d, sel) ==
    IF sel = <<".">> THEN Returned(d)
    ELSE LET key == TrimPrefixDot(sel)
         IN IF IsMap(d)
            THEN IF key \in DOMAIN Fields(d)
                 THEN Returned(Fields(d)[key])
                 ELSE Exited("KeyNotFound", key)
            ELSE Exited("NotAnObject", <<>>)

----------------------------------------------------------------------------
(* Inputs of the selector runs *)

\* every function from a subset of keys to vals, as a map value
MapsOver(keys, vals) == {MapV(f) : f \in UNION {[D -> vals] : D \in SUBSET keys}}

\* every sequence of length lo..hi over vals, as a slice value
SeqsOver(vals, lo, hi) == {SeqV(s) : s \in UNION {[1..n -> vals] : n \in lo..hi}}

ka == <<"a">>
kb == <<"b">>
SelKeys == {ka, kb}

vs == Str(<<"s">>)
vn == Num(1)
Leaf == {vs, vn}

LeafSeqs == {SeqV(<<>>), SeqV(<<vs>>), SeqV(<<vs, vn>>), SeqV(<<vn, vs>>)}
Flat == Leaf \cup LeafSeqs \cup MapsOver(SelKeys, Leaf)
Wrapped == {MapV([k \in {key} |-> x]) : key \in SelKeys, x \in Flat \ Leaf}
             \cup {SeqV(<<x>>) : x \in Flat \ Leaf}
Deep == {MapV([k \in {ka} |-> x]) : x \in Wrapped}

\* documents of a stream, or elements of a top-level array
DocChoices ==
    { vs,
      MapV([k \in {ka} |-> vs]),
      MapV([k \in {kb} |-> vn]),
      MapV([k \in {ka} |-> MapV([j \in {kb} |-> vn])]),
      SeqV(<<MapV([k \in {ka} |-> vs])>>) }

\* parseInput: a single value with the flag unset, or the slice of two or more
\* YAML documents with the flag set
SingleInputs == Flat \cup Wrapped \cup Deep \cup SeqsOver(DocChoices, 0, MaxDocs)
StreamInputs == SeqsOver(DocChoices, 2, MaxDocs)

SegTexts == { <<".", "a">>, <<".", "b">>, <<"[", "0", "]">>, <<"[", "1", "]">> }

RECURSIVE Concat(_)
Concat(parts) == IF parts = <<>> THEN <<>> ELSE Head(parts) \o Concat(Tail(parts))

\* a selector made of the given segments: "." alone when there is none, and a
\* leading "." before a leading bracket
SelectorOf(segs) ==
    LET body == Concat(segs)
    IN IF body = <<>> THEN <<".">>
       ELSE IF Head(body) = "[" THEN <<".">> \o body
       ELSE body

SelectorsOver(segTexts, n) ==
    {SelectorOf(segs) : segs \in UNION {[1..k -> segTexts] : k \in 0..n}}

\* default of the -w flag
maxValueWidth == 80

\* getTerminalWidth when the size cannot be read
defaultTermWidth == 80

\* no pager has been started
NoModel == <<>>

\* runs whose output text is not looked at
NoTerminal == output = <<>> /\ termWidth = defaultTermWidth

Idle ==
    /\ pc = "start"
    /\ path = <<>>
    /\ pos = 0
    /\ current = Null
    /\ fullPath = <<>>
    /\ outcome = NoOutcome
    /\ rendered = <<>>
    /\ pager = NoModel
    /\ opened = NoModel

Init ==
    /\ build \in {"main", "p001"}
    /\ data \in SingleInputs \cup StreamInputs
    /\ isMultiDoc \in BOOLEAN
    /\ isMultiDoc => (build = "main" /\ data \in StreamInputs)
    /\ selector \in SelectorsOver(SegTexts, MaxSteps)
    /\ format = "table"
    /\ details = FALSE
    /\ maxWidth = maxValueWidth
    /\ isTerm = FALSE
    /\ iter = <<>>
    /\ NoTerminal
    /\ Idle

----------------------------------------------------------------------------
(* main.go: data = applySelector(data, selector) *)

Finish(r) ==
    /\ outcome' = r
    /\ pc' = IF r.status = "ok" THEN "selected" ELSE "exited"

ApplySelectorIdentity ==
    /\ build = "main" /\ pc = "start"
    /\ selector = <<".">>
    /\ Finish(Returned(data))
    /\ UNCHANGED <<inputs, view, path, pos, current, fullPath, rendered>>

ApplySelectorFanOut ==
    /\ build = "main" /\ pc = "start"
    /\ selector # <<".">>
    /\ fansOut(data, selector)
    /\ Finish(applySelector(data, selector))
    /\ UNCHANGED <<inputs, view, path, pos, current, fullPath, rendered>>

ApplySelectorSplit ==
    /\ build = "main" /\ pc = "start"
    /\ selector # <<".">>
    /\ ~fansOut(data, selector)
    /\ path' = splitSelector(selector)
    /\ pos' = 1
    /\ current' = data
    /\ fullPath' = <<>>
    /\ pc' = "walk"
    /\ UNCHANGED <<inputs, view, outcome, rendered>>

WalkSkip ==
    /\ build = "main" /\ pc = "walk"
    /\ pos <= Len(path)
    /\ path[pos] = <<>>
    /\ pos' = pos + 1
    /\ UNCHANGED <<inputs, view, pc, path, current, fullPath, outcome, rendered>>

Advance(r) ==
    IF r.status = "exit"
    THEN /\ Finish(r)
         /\ UNCHANGED <<pos, current>>
    ELSE /\ current' = r.val
         /\ pos' = pos + 1
         /\ UNCHANGED <<pc, outcome>>

WalkIndex ==
    /\ build = "main" /\ pc = "walk"
    /\ pos <= Len(path)
    /\ path[pos] # <<>>
    /\ isIndexKey(path[pos])
    /\ fullPath' = extendPath(fullPath, path[pos])
    /\ Advance(indexStep(current, path[pos], fullPath'))
    /\ UNCHANGED <<inputs, view, path, rendered>>

WalkKey ==
    /\ build = "main" /\ pc = "walk"
    /\ pos <= Len(path)
    /\ path[pos] # <<>>
    /\ ~isIndexKey(path[pos])
    /\ fullPath' = extendPath(fullPath, path[pos])
    /\ Advance(keyStep(current, path[pos], fullPath'))
    /\ UNCHANGED <<inputs, view, path, rendered>>

WalkDone ==
    /\ build = "main" /\ pc = "walk"
    /\ pos > Len(path)
    /\ Finish(Returned(current))
    /\ UNCHANGED <<inputs, view, path, pos, current, fullPath, rendered>>

----------------------------------------------------------------------------
(* part_001: data = applySelector(data, selector) *)

KeyOnlyIdentity ==
    /\ build = "p001" /\ pc = "start"
    /\ selector = <<".">>
    /\ Finish(Returned(data))
    /\ UNCHANGED <<inputs, view, path, pos, current, fullPath, rendered>>

KeyOnlySplit ==
    /\ build = "p001" /\ pc = "start"
    /\ selector # <<".">>
    /\ path' = Split(TrimPrefixDot(selector), ".")
    /\ pos' = 1
    /\ current' = data
    /\ pc' = "walk"
    /\ UNCHANGED <<inputs, view, fullPath, outcome, rendered>>

KeyOnlyStep ==
    /\ build = "p001" /\ pc = "walk"
    /\ pos <= Len(path)
    /\ Advance(keyOnlyStep(current, path, pos))
    /\ UNCHANGED <<inputs, view, path, fullPath, rendered>>

KeyOnlyDone ==
    /\ build = "p001" /\ pc = "walk"
    /\ pos > Len(path)
    /\ Finish(Returned(current))
    /\ UNCHANGED <<inputs, view, path, pos, current, fullPath, rendered>>

Next ==
    \/ ApplySelectorIdentity
    \/ ApplySelectorFanOut
    \/ ApplySelectorSplit
    \/ WalkSkip
    \/ WalkIndex
    \/ WalkKey
    \/ WalkDone
    \/ KeyOnlyIdentity
    \/ KeyOnlySplit
    \/ KeyOnlyStep
    \/ KeyOnlyDone

Spec == Init /\ [][Next]_vars

----------------------------------------------------------------------------
(* The selector grammar and its meaning, as the specification states them:  *)
(* a path is a sequence of steps <<"key", k>> and <<"idx", i>>              *)

Letters == {"a", "b", "s", "x", "B"}

IsIdent(key) == key # <<>> /\ \A i \in 1..Len(key) : key[i] \in Letters

KeyOf(k) == <<"key", k>>
IdxOf(i) == <<"idx", i>>

DigitChar(d) == CASE d = 0 -> "0" [] d = 1 -> "1" [] d = 2 -> "2" [] d = 3 -> "3"
                  [] d = 4 -> "4" [] d = 5 -> "5" [] d = 6 -> "6" [] d = 7 -> "7"
                  [] d = 8 -> "8" [] d = 9 -> "9"

\* the decimal text of a natural number
RECURSIVE Itoa(_)
Itoa(n) == IF n < 10 THEN <<DigitChar(n)>> ELSE Itoa(n \div 10) \o <<DigitChar(n % 10)>>

StepText(st) ==
    IF st[1] = "key" THEN <<".">> \o st[2] ELSE <<"[">> \o Itoa(st[2]) \o <<"]">>

PathText(steps) == SelectorOf([i \in 1..Len(steps) |-> StepText(steps[i])])

Steps == {KeyOf(ka), KeyOf(kb), IdxOf(0), IdxOf(1)}

StepSeqs == UNION {[1..k -> Steps] : k \in 0..MaxSteps}

\* the path a well-formed selector text spells (PathText is one-to-one)
StepsOfText ==
    [t \in {PathText(steps) : steps \in StepSeqs} |->
        CHOOSE steps \in StepSeqs : PathText(steps) = t]

\* the step exists at v
StepExists(v, st) ==
    IF st[1] = "key"
    THEN IsMap(v) /\ st[2] \in DOMAIN Fields(v)
    ELSE IsSeq(v) /\ st[2] >= 0 /\ st[2] < Len(Elems(v))

StepInto(v, st) == IF st[1] = "key" THEN Fields(v)[st[2]] ELSE Elems(v)[st[2] + 1]

\* all steps exist, followed in order from v
RECURSIVE Resolves(_, _)
Resolves(v, steps) ==
    \/ steps = <<>>
    \/ /\ StepExists(v, Head(steps))
       /\ Resolves(StepInto(v, Head(steps)), Tail(steps))

\* the sub-value reached by following the steps from v
RECURSIVE SubValue(_, _)
SubValue(v, steps) ==
    IF steps = <<>> THEN v ELSE SubValue(StepInto(v, Head(steps)), Tail(steps))

Ended == pc \in {"selected", "exited"}

\* the path element the loop is about to take up
AtStep == pc = "walk" /\ pos >= 1 /\ pos <= Len(path)

----------------------------------------------------------------------------
\* C1: for every tree and every path of Key and Index steps that all exist in
\* the tree, applySelector returns exactly the sub-value reached by following
\* the steps from the root; "." returns the root unchanged.
C1_WellFormedPath ==
    (build = "main" /\ Ended) =>
        ((selector \in DOMAIN StepsOfText /\ Resolves(data, StepsOfText[selector]))
            => outcome = Returned(SubValue(data, StepsOfText[selector])))

\* a three-step path mixing keys and an index has been resolved to a leaf
C1_Witness ==
    /\ build = "main" /\ pc = "selected"
    /\ selector = PathText(<<KeyOf(ka), KeyOf(kb), IdxOf(1)>>)
    /\ outcome.val = vn

C4_WitnessNotAnObject ==
    /\ build = "main" /\ pc = "exited" /\ pos = 2
    /\ outcome.kind = "NotAnObject"
    /\ IsIdent(path[pos]) /\ ~IsMap(current)

\* C5: an Index(i) step on a value that is not a Sequence fails with
\* NotAnArray, on a Sequence of length L with i outside [0, L) with
\* IndexOutOfBounds; for 0 <= i < L it selects element i.
C5_IndexStepErrors ==
    [][ \A i \in 0..9 :
          (build = "main" /\ AtStep /\ path[pos] = StepText(IdxOf(i))) =>
              /\ ~IsSeq(current) =>
                    /\ pc' = "exited"
                    /\ outcome'.status = "exit" /\ outcome'.kind = "NotAnArray"
              /\ (IsSeq(current) /\ i >= Len(Elems(current))) =>
                    /\ pc' = "exited"
                    /\ outcome'.status = "exit" /\ outcome'.kind = "IndexOutOfBounds"
              /\ (IsSeq(current) /\ i < Len(Elems(current))) =>
                    /\ pc' = "walk"
                    /\ current' = Elems(current)[i + 1]
                    /\ outcome' = NoOutcome
      ]_vars

\* index 1 has selected the second element of a two-element Sequence
C5_Witness ==
    /\ build = "main" /\ pc = "walk" /\ pos = 3
    /\ path[2] = StepText(IdxOf(1))
    /\ data = SeqV(<<vs, vn>>) /\ current = vn

----------------------------------------------------------------------------
(* Runs for the index syntax: bracketed steps of every shape *)

MaxSynSteps == 2

SynSegTexts ==
    { <<".", "a">>, <<".">>,
      <<"[", "0", "]">>, <<"[", "-", "1", "]">>, <<"[", "-", "0", "]">>,
      <<"[", "+", "1", "]">>, <<"[", "x", "]">>, <<"[", "]">>,
      <<"[", "1", "]", "]">> }

SynInit ==
    /\ build = "main"
    /\ data \in Flat \cup {MapV([k \in {ka} |-> x]) : x \in LeafSeqs}
    /\ isMultiDoc = FALSE
    /\ selector \in SelectorsOver(SynSegTexts, MaxSynSteps)
    /\ format = "table"
    /\ details = FALSE
    /\ maxWidth = maxValueWidth
    /\ isTerm = FALSE
    /\ iter = <<>>
    /\ NoTerminal
    /\ Idle

SynNext ==
    \/ ApplySelectorIdentity
    \/ ApplySelectorFanOut
    \/ ApplySelectorSplit
    \/ WalkSkip
    \/ WalkIndex
    \/ WalkKey
    \/ WalkDone

SynSpec == SynInit /\ [][SynNext]_vars

----------------------------------------------------------------------------
FirstIsKey(sel) == Len(sel) >= 2 /\ sel[1] = "." /\ sel[2] \in Letters

StepsOf(sel) == StepsOfText[sel]

\* C2: the path is applied to each element of a root sequence only for a
\* multi-document stream; for an ordinary Sequence root (flag unset) a path
\* whose first step is a Key fails with NotAnObject.
C2_FanOutScope ==
    (build = "main" /\ Ended /\ ~isMultiDoc /\ IsSeq(data) /\ FirstIsKey(selector))
        => (outcome.status = "exit" /\ outcome.kind = "NotAnObject")

\* C3: for a multi-document root and a path starting with a Key step, the
\* result is the sequence of the per-document sub-values when the path
\* resolves in every document, and the whole evaluation fails when the path
\* fails on any one document.
C3_FanOutResult ==
    (build = "main" /\ Ended /\ isMultiDoc /\ FirstIsKey(selector)) =>
        LET steps == StepsOf(selector)
            docs == Elems(data)
        IN IF \A i \in 1..Len(docs) : Resolves(docs[i], steps)
           THEN outcome = Returned(SeqV([i \in 1..Len(docs) |-> SubValue(docs[i], steps)]))
           ELSE outcome.status = "exit" /\ outcome.val = Null

\* C3, the part that holds: when the path resolves in every document
C3_ResolvedEverywhere ==
    (build = "main" /\ Ended /\ isMultiDoc /\ FirstIsKey(selector)) =>
        LET steps == StepsOf(selector)
            docs == Elems(data)
        IN (\A i \in 1..Len(docs) : Resolves(docs[i], steps))
              => outcome = Returned(SeqV([i \in 1..Len(docs) |-> SubValue(docs[i], steps)]))

----------------------------------------------------------------------------
(* Bracketed steps *)

Bracketed(key) == Len(key) >= 2 /\ key[1] = "[" /\ key[Len(key)] = "]"

Content(key) == SubSeq(key, 2, Len(key) - 1)

NoBracket(c) == \A i \in 1..Len(c) : c[i] \notin {"[", "]"}

IsDecimal(c) == c # <<>> /\ \A i \in 1..Len(c) : c[i] \in Digits

\* a minus sign before digits
MinusDigits(c) == c # <<>> /\ Head(c) = "-" /\ IsDecimal(Tail(c))

\* a minus sign before digits that are not all zero
NegativeNumber(c) == MinusDigits(c) /\ \E i \in 2..Len(c) : c[i] # "0"

\* not a run of digits with an optional sign
NotANumber(c) == ~IsDecimal(c) /\ ~(c # <<>> /\ Head(c) \in {"+", "-"} /\ IsDecimal(Tail(c)))

AtBracketed == build = "main" /\ AtStep /\ Bracketed(path[pos]) /\ NoBracket(Content(path[pos]))

C6_WitnessNonNumeric ==
    /\ build = "main" /\ pc = "exited"
    /\ pos >= 1 /\ path[pos] = <<"[", "x", "]">>
    /\ ~IsSeq(current)
    /\ outcome.kind = "InvalidIndex"

----------------------------------------------------------------------------
(* The path named in an error *)

NonEmpty(p) == LET Filled(x) == x # <<>> IN SelectSeq(p, Filled)

\* the selector text consumed once elements 1..i of the split p are taken up:
\* the shortest prefix of the selector that splits into them
ConsumedText(sel, p, i) ==
    LET ends == {n \in 1..Len(sel) : splitSelector(SubSeq(sel, 1, n)) = SubSeq(p, 1, i)}
    IN SubSeq(sel, 1, CHOOSE n \in ends : \A m \in ends : n <= m)

\* C7 as claimed: the path named in the error is the selector text consumed
\* so far, up to and including the failing step (".a.b" for ".a.b[2]").
C7_PathIsSelectorText ==
    (build = "main" /\ pc = "exited" /\ pos >= 1)
        => outcome.at = ConsumedText(selector, path, pos)

\* C7 as amended: main.go names the non-empty path elements taken up so far,
\* the failing one included, joined by "." and without the leading "."; the
\* key-only program names the elements up to and including the failing one
\* for KeyNotFound and only those before it for NotAnObject.
C7_ReportedPath ==
    /\ (build = "main" /\ pc = "exited") =>
          LET p == splitSelector(selector)
          IN \E i \in 1..Len(p) :
                /\ p[i] # <<>>
                /\ outcome.at = Join(NonEmpty(SubSeq(p, 1, i)), <<".">>)
                /\ pos >= 1 => i = pos
    /\ (build = "p001" /\ pc = "exited") =>
          /\ outcome.kind = "KeyNotFound" => outcome.at = Join(SubSeq(path, 1, pos), <<".">>)
          /\ outcome.kind = "NotAnObject" => outcome.at = Join(SubSeq(path, 1, pos - 1), <<".">>)

\* ".a.b[1]" on a tree whose a has no key b: KeyNotFound at "a.b"
C7_Witness ==
    /\ build = "main" /\ pc = "exited"
    /\ selector = <<".", "a", ".", "b", "[", "1", "]">>
    /\ outcome.kind = "KeyNotFound"
    /\ outcome.at = <<"a", ".", "b">>

----------------------------------------------------------------------------
(* Rendering (main.go): what is handed to the table backend.                *)
(*                                                                          *)
(* A table is [stdout, caption, header, rows, panic] (stdout: text written  *)
(* to standard output ahead of the table); a row is a sequence of cells;    *)
(* a cell is [wrap, class, text, nested, oneLine, panic]:                   *)
(*   wrap    "plain", "ansi" (lipgloss Style.Render) or "span" (the HTML    *)
(*           <span class="...">...</span> around the text)                  *)
(*   class   the lipgloss style or the CSS class                            *)
(*   text    the cell's own text; nested: <<table>> when the cell holds a   *)
(*           rendered nested table, <<>> otherwise                          *)
(*   oneLine the newlines of the nested table have been removed             *)
(*   panic   producing the cell panicked (slice bounds out of range)        *)
(****************************************************************************)

\* texts of the program
nilText == <<"<", "n", "i", "l", ">">>
trueText == <<"t", "r", "u", "e">>
falseText == <<"f", "a", "l", "s", "e">>
ampEntity == <<"&", "a", "m", "p", ";">>
ltEntity == <<"&", "l", "t", ";">>
gtEntity == <<"&", "g", "t", ";">>
quotEntity == <<"&", "q", "u", "o", "t", ";">>
aposEntity == <<"&", "#", "3", "9", ";">>
keyHeader == <<"[", "k", "e", "y", "]">>
valueLabel == <<"v", "a", "l", "u", "e">>
arrayCaptionHead == <<"[", "-", "]", " ", "a", "r", "r", "a", "y", ",", " ">>
arrayCaptionTail == <<" ", "i", "t", "e", "m", "s">>
objectCaptionHead == <<"[", "-", "]", " ", "o", "b", "j", "e", "c", "t", ",", " ">>
objectCaptionTail == <<" ", "p", "r", "o", "p", "e", "r", "t", "i", "e", "s">>

\* characters of the model in byte order
Ascii == <<"\t", "\n", "\r", " ", "\"", "#", "&", "'", "+", ",", "-", ".",
           "0", "1", "2", "3", "4", "5", "6", "7", "8", "9", ";", "<", ">",
           "B", "[", "]", "a", "b", "e", "f", "g", "i", "l", "m", "n", "o",
           "p", "q", "r", "s", "t", "u", "v", "x", "y">>

Ord(c) == CHOOSE i \in 1..Len(Ascii) : Ascii[i] = c

\* s < t for Go strings: byte-wise lexicographic
RECURSIVE Less(_, _)
Less(s, t) ==
    IF t = <<>> THEN FALSE
    ELSE IF s = <<>> THEN TRUE
    ELSE IF Head(s) = Head(t) THEN Less(Tail(s), Tail(t))
    ELSE Ord(Head(s)) < Ord(Head(t))

\* the keys of a map in the order range visits them in this run
RECURSIVE rangeKeysFrom(_, _)
rangeKeysFrom(keys, order) ==
    IF order = <<>> THEN <<>>
    ELSE (IF Head(order) \in keys THEN <<Head(order)>> ELSE <<>>)
            \o rangeKeysFrom(keys, Tail(order))

rangeKeys(m, order) == rangeKeysFrom(DOMAIN m, order)

\* sort.Strings, as an insertion sort
RECURSIVE insertSorted(_, _)
insertSorted(sorted, k) ==
    IF sorted = <<>> THEN <<k>>
    ELSE IF Less(k, Head(sorted)) THEN <<k>> \o sorted
    ELSE <<Head(sorted)>> \o insertSorted(Tail(sorted), k)

RECURSIVE sortStringsFrom(_, _)
sortStringsFrom(keys, acc) ==
    IF keys = <<>> THEN acc ELSE sortStringsFrom(Tail(keys), insertSorted(acc, Head(keys)))

sortStrings(keys) == sortStringsFrom(keys, <<>>)

\* fmt.Sprintf("%d", n)
sprintD(n) == IF n < 0 THEN <<"-">> \o Itoa(0 - n) ELSE Itoa(n)

\* fmt.Sprintf("%v", v) of a value that is neither a map nor a slice
sprintV(v) ==
    CASE v[1] = "null" -> nilText
      [] v[1] = "bool" -> (IF v[2] THEN trueText ELSE falseText)
      [] v[1] = "num" -> sprintD(v[2])
      [] v[1] = "str" -> v[2]

\* strings.ReplaceAll(s, "  ", " "): non-overlapping, left to right
RECURSIVE replaceDoubleSpace(_)
replaceDoubleSpace(s) ==
    IF Len(s) < 2 THEN s
    ELSE IF s[1] = " " /\ s[2] = " " THEN <<" ">> \o replaceDoubleSpace(SubSeq(s, 3, Len(s)))
    ELSE <<Head(s)>> \o replaceDoubleSpace(Tail(s))

containsDoubleSpace(s) == \E i \in 1..(Len(s) - 1) : s[i] = " " /\ s[i + 1] = " "

RECURSIVE collapseSpaces(_)
collapseSpaces(s) ==
    IF containsDoubleSpace(s) THEN collapseSpaces(replaceDoubleSpace(s)) ELSE s

Whitespace == {" ", "\t", "\n", "\r"}

\* truncateValue up to the length test: newlines become spaces, carriage
\* returns are deleted, double spaces are collapsed, the ends are trimmed
normalizeSpace(s) ==
    LET s1 == ReplaceAll(s, "\n", <<" ">>)
        s2 == ReplaceAll(s1, "\r", <<>>)
        s3 == collapseSpaces(s2)
    IN Trim(s3, Whitespace)

\* part_001's truncateValue up to the length test: carriage returns become
\* spaces too
normalizeSpaceKeyOnly(s) ==
    LET s1 == ReplaceAll(s, "\n", <<" ">>)
        s2 == ReplaceAll(s1, "\r", <<" ">>)
        s3 == collapseSpaces(s2)
    IN Trim(s3, Whitespace)

\* the cut with a bound below 0 taken as 0
cutToWidthFloorZero(s4, w) ==
    IF Len(s4) <= w THEN [text |-> s4, panic |-> FALSE]
    ELSE IF w - 3 < 0 THEN [text |-> <<".", ".", ".">>, panic |-> FALSE]
    ELSE [text |-> SubSeq(s4, 1, w - 3) \o <<".", ".", ".">>, panic |-> FALSE]

\* the length test and the cut s[:maxWidth-3] + "...", which panics for a
\* negative bound
cutToWidth(s4, w) ==
    IF Len(s4) <= w THEN [text |-> s4, panic |-> FALSE]
    ELSE IF w - 3 < 0 THEN [text |-> <<>>, panic |-> TRUE]
    ELSE [text |-> SubSeq(s4, 1, w - 3) \o <<".", ".", ".">>, panic |-> FALSE]

\* the cut keeps maxWidth characters before the dots
truncateValueCutsAtWidth(s, w) ==
    LET s4 == normalizeSpace(s)
    IN IF Len(s4) <= w THEN [text |-> s4, panic |-> FALSE]
       ELSE [text |-> SubSeq(s4, 1, w) \o <<".", ".", ".">>, panic |-> FALSE]

\* truncateValue: the text, or the panic of s[:maxWidth-3] with a negative bound
truncateValue(s, w) == cutToWidth(normalizeSpace(s), w)

\* part_001's truncateValue
truncateValueKeyOnly(s, w) == cutToWidth(normalizeSpaceKeyOnly(s), w)

\* the truncateValue of the program that runs
truncate(s, o) ==
    IF o.build = "p001" THEN truncateValueKeyOnly(s, o.maxWidth)
    ELSE truncateValue(s, o.maxWidth)

escapeHTML(s) ==
    LET s1 == ReplaceAll(s, "&", ampEntity)
        s2 == ReplaceAll(s1, "<", ltEntity)
        s3 == ReplaceAll(s2, ">", gtEntity)
        s4 == ReplaceAll(s3, "\"", quotEntity)
    IN ReplaceAll(s4, "'", aposEntity)

getHTMLClass(v) ==
    CASE v[1] = "bool" -> "jt-bool"
      [] v[1] = "str" -> "jt-string"
      [] v[1] = "num" -> "jt-number"
      [] v[1] \in {"map", "seq"} -> "jt-nested"
      [] OTHER -> "jt-key"

getStyle(v) ==
    CASE v[1] = "bool" -> "boolStyle"
      [] v[1] = "str" -> "stringStyle"
      [] v[1] = "num" -> "intStyle"
      [] OTHER -> "keyStyle"

\* isTerminal() && format == "table"
useColor(o) == o.isTerm /\ o.format = "table"

PlainCell(t) ==
    [wrap |-> "plain", class |-> "", text |-> t, nested |-> <<>>,
     oneLine |-> FALSE, panic |-> FALSE]

\* a cell with the styling the run applies to a value of class/style cls
Styled(c, o, style, class) ==
    IF useColor(o) THEN [c EXCEPT !.wrap = "ansi", !.class = style]
    ELSE IF o.format = "html" THEN [c EXCEPT !.wrap = "span", !.class = class]
    ELSE c

EmptyTable ==
    [stdout |-> <<>>, caption |-> <<>>, header |-> <<>>, rows |-> <<>>, panic |-> FALSE]

RowsPanic(rows) ==
    \E i \in 1..Len(rows) : \E j \in 1..Len(rows[i]) : rows[i][j].panic

RECURSIVE renderRecursive(_, _)

formatValue(val, o) ==
    IF IsMap(val) \/ IsSeq(val)
    THEN LET nested == renderRecursive(val, o)
         IN [PlainCell(<<>>) EXCEPT !.nested = <<nested>>,
                                    !.oneLine = (o.format = "html"),
                                    !.panic = nested.panic]
    ELSE LET value == sprintV(val)
             shown == truncate(IF o.format = "html" THEN escapeHTML(value) ELSE value, o)
         IN [PlainCell(shown.text) EXCEPT !.panic = shown.panic]

appendRow(key, value, originalVal, o) ==
    << Styled(PlainCell(key), o, "keyStyle", "jt-key"),
       Styled(value, o, getStyle(originalVal), getHTMLClass(originalVal)) >>

buildHeaders(v, o) ==
    <<keyHeader>> \o
        (IF IsMap(v[1]) THEN sortStrings(rangeKeys(Fields(v[1]), o.iter)) ELSE <<>>)

\* m[key] of Go: nil for a key the map does not hold
lookup(m, key) == IF key \in DOMAIN m THEN m[key] ELSE Null

sliceRow(v, i, headers, o) ==
    LET item == v[i]
    IN IF IsMap(item)
       THEN <<Styled(PlainCell(sprintD(i - 1)), o, "keyStyle", "jt-key")>> \o
            [j \in 1..(Len(headers) - 1) |->
                LET val == lookup(Fields(item), headers[j + 1])
                IN Styled(formatValue(val, o), o, getStyle(val), getHTMLClass(val))]
       ELSE appendRow(sprintD(i - 1), formatValue(item, o), item, o)

handleSlice(v, o) ==
    LET caption == IF o.details THEN arrayCaptionHead \o sprintD(Len(v)) \o arrayCaptionTail ELSE <<>>
    IN IF Len(v) = 0 THEN [EmptyTable EXCEPT !.caption = caption]
       ELSE LET headers == buildHeaders(v, o)
                rows == [i \in 1..Len(v) |-> sliceRow(v, i, headers, o)]
            IN [EmptyTable EXCEPT !.caption = caption, !.header = headers,
                                  !.rows = rows, !.panic = RowsPanic(rows)]

handleMap(m, o) ==
    LET caption == IF o.details
                   THEN objectCaptionHead \o sprintD(Cardinality(DOMAIN m)) \o objectCaptionTail
                   ELSE <<>>
        keys == sortStrings(rangeKeys(m, o.iter))
        rows == [i \in 1..Len(keys) |->
                    appendRow(keys[i], formatValue(m[keys[i]], o), m[keys[i]], o)]
    IN [EmptyTable EXCEPT !.caption = caption, !.rows = rows, !.panic = RowsPanic(rows)]

appendData(d, o) ==
    IF IsSeq(d) THEN handleSlice(Elems(d), o)
    ELSE IF IsMap(d) THEN handleMap(Fields(d), o)
    ELSE LET shown == truncate(sprintV(d), o)
         IN [EmptyTable EXCEPT
                !.rows = << <<PlainCell(valueLabel),
                              [PlainCell(shown.text) EXCEPT !.panic = shown.panic]>> >>,
                !.panic = shown.panic]

renderRecursive(d, o) == appendData(d, o)

\* render: one table per document of a stream, one table otherwise
render(d, o, multi) ==
    IF multi /\ IsSeq(d)
    THEN [i \in 1..Len(Elems(d)) |-> renderRecursive(Elems(d)[i], o)]
    ELSE <<renderRecursive(d, o)>>

----------------------------------------------------------------------------
(* The first program of unnamed/part_000: render, renderRecursive,          *)
(* appendData.  Values are neither truncated nor escaped, and the rows of a *)
(* map are appended while ranging over it.                                  *)

objectCaptionHeadFirst == <<"[", "-", "]", " ", "O", "b", "j", "e", "c", "t", ",", " ">>
arrayCaptionHeadFirst == <<"[", "-", "]", " ", "A", "r", "r", "a", "y", ",", " ">>

\* getStyle of the first program; a decoded JSON number is a float64, which
\* its type switch does not list
getStyleFirst(v) ==
    CASE v[1] = "bool" -> "boolStyle"
      [] v[1] = "str" -> "stringStyle"
      [] OTHER -> "keyStyle"

StyledFirst(c, o, style) ==
    IF useColor(o) THEN [c EXCEPT !.wrap = "ansi", !.class = style] ELSE c

RECURSIVE renderRecursiveFirst(_, _)

valueFirst(val, o) ==
    IF IsMap(val) \/ IsSeq(val)
    THEN [PlainCell(<<>>) EXCEPT !.nested = <<renderRecursiveFirst(val, o)>>]
    ELSE PlainCell(sprintV(val))

appendDataFirst(d, o) ==
    IF IsMap(d)
    THEN LET m == Fields(d)
             keys == rangeKeys(m, o.iter)
         IN [EmptyTable EXCEPT
                !.caption = IF o.details
                            THEN objectCaptionHeadFirst \o sprintD(Cardinality(DOMAIN m)) \o objectCaptionTail
                            ELSE <<>>,
                !.rows = [i \in 1..Len(keys) |->
                            << StyledFirst(PlainCell(keys[i]), o, "keyStyle"),
                               StyledFirst(valueFirst(m[keys[i]], o), o,
                                           getStyleFirst(m[keys[i]])) >>]]
    ELSE IF IsSeq(d)
    THEN LET v == Elems(d)
         IN [EmptyTable EXCEPT
                !.caption = IF o.details
                            THEN arrayCaptionHeadFirst \o sprintD(Len(v)) \o arrayCaptionTail
                            ELSE <<>>,
                !.rows = [i \in 1..Len(v) |->
                            << StyledFirst(PlainCell(sprintD(i - 1)), o, "keyStyle"),
                               StyledFirst(valueFirst(v[i], o), o, getStyleFirst(d)) >>]]
    ELSE [EmptyTable EXCEPT !.stdout = sprintV(d)]

renderRecursiveFirst(d, o) == appendDataFirst(d, o)

----------------------------------------------------------------------------
(* Selection followed by rendering *)

\* the options of the run
Options ==
    [build |-> build, details |-> details, format |-> format, maxWidth |-> maxWidth,
     isTerm |-> isTerm, iter |-> iter]

\* main.go: render(data, *format, *details, *maxWidth, isMultiDoc)
Render ==
    /\ build = "main" /\ pc = "selected"
    /\ LET out == render(outcome.val, Options, isMultiDoc)
       IN IF \E i \in 1..Len(out) : out[i].panic
          THEN pc' = "panicked" /\ rendered' = <<>>
          ELSE pc' = "rendered" /\ rendered' = out
    /\ UNCHANGED <<inputs, view, path, pos, current, fullPath, outcome>>

\* first program: the selection written out in main
SelectFirst ==
    /\ build = "p000" /\ pc = "start"
    /\ Finish(topLevelSelect(data, selector))
    /\ UNCHANGED <<inputs, view, path, pos, current, fullPath, rendered>>

\* first program: render(data, *format, *details)
RenderFirst ==
    /\ build = "p000" /\ pc = "selected"
    /\ rendered' = <<renderRecursiveFirst(outcome.val, Options)>>
    /\ pc' = "rendered"
    /\ UNCHANGED <<inputs, view, path, pos, current, fullPath, outcome>>

\* bound: longest sequence rendered
MaxItems == 2

kB == <<"B">>
kab == <<"a", "b">>
RenderKeys == {kB, ka, kab}

\* every order in which range may visit the keys
Orders ==
    {o \in [1..Cardinality(RenderKeys) -> RenderKeys] :
        \A i, j \in DOMAIN o : i # j => o[i] # o[j]}

RenderMaps == MapsOver(RenderKeys, Leaf)

RenderItems ==
    {vs, vn,
     MapV([k \in {ka} |-> vs]),
     MapV([k \in {kB, ka} |-> IF k = ka THEN vn ELSE vs]),
     MapV([k \in {kab} |-> vn]),
     SeqV(<<vs>>)}

RenderSeqs == SeqsOver(RenderItems, 0, MaxItems)

RenderNested ==
    {MapV([k \in {ka} |-> m]) : m \in {x \in RenderMaps : Cardinality(DOMAIN Fields(x)) >= 2}}

RenderInputs == Leaf \cup RenderMaps \cup RenderNested \cup RenderSeqs

RenderInit ==
    /\ build \in {"main", "p000"}
    /\ data \in RenderInputs
    /\ isMultiDoc \in BOOLEAN
    /\ isMultiDoc => (build = "main" /\ IsSeq(data) /\ Len(Elems(data)) >= 2)
    /\ selector \in {<<".">>, <<".", "a">>}
    /\ format \in {"table", "html"}
    /\ details \in BOOLEAN
    /\ maxWidth = maxValueWidth
    /\ isTerm \in BOOLEAN
    /\ iter \in Orders
    /\ NoTerminal
    /\ Idle

RenderNext ==
    \/ ApplySelectorIdentity
    \/ ApplySelectorFanOut
    \/ ApplySelectorSplit
    \/ WalkKey
    \/ WalkDone
    \/ Render
    \/ SelectFirst
    \/ RenderFirst

RenderSpec == RenderInit /\ [][RenderNext]_vars

\* the table rendered for the selected value, when it is one table
Shown == rendered[1]

RowKeys(T) == [i \in 1..Len(T.rows) |-> T.rows[i][1].text]

StrictlyIncreasing(ks) == \A i \in 1..(Len(ks) - 1) : Less(ks[i], ks[i + 1])

\* the table T of the Mapping v has one row per key in increasing key order,
\* and so has every table nested in it for a value that is a Mapping
RECURSIVE MapRowsSorted(_, _)
MapRowsSorted(v, T) ==
    LET m == Fields(v)
        ks == RowKeys(T)
    IN /\ Len(ks) = Cardinality(DOMAIN m)
       /\ {ks[i] : i \in 1..Len(ks)} = DOMAIN m
       /\ StrictlyIncreasing(ks)
       /\ \A i \in 1..Len(ks) :
            IsMap(m[ks[i]]) =>
                /\ Len(T.rows[i][2].nested) = 1
                /\ MapRowsSorted(m[ks[i]], T.rows[i][2].nested[1])

\* C8: in every program that renders a Mapping (the current handleMap and
\* the first program's appendData), the rows of a rendered Mapping are one
\* per key, in strictly increasing byte-wise key order, whatever order range
\* visited the keys in.
C8_MappingRowsSorted ==
    (pc = "rendered" /\ IsMap(outcome.val)) => MapRowsSorted(outcome.val, Shown)

\* the part of C8 that the current program keeps
C8_HandleMapSorted ==
    (build = "main" /\ pc = "rendered" /\ IsMap(outcome.val))
        => MapRowsSorted(outcome.val, Shown)

\* a Mapping of two keys or more rendered by the current program after range
\* visited its keys out of order
C8_HandleMapWitness ==
    /\ build = "main" /\ pc = "rendered" /\ IsMap(outcome.val)
    /\ Cardinality(DOMAIN Fields(outcome.val)) >= 2
    /\ ~StrictlyIncreasing(rangeKeys(Fields(outcome.val), iter))

\* the selected value is a Sequence rendered as one table by the current
\* program
SliceShown ==
    /\ build = "main" /\ pc = "rendered"
    /\ IsSeq(outcome.val) /\ ~isMultiDoc
    /\ Len(Elems(outcome.val)) > 0

SortedKeys(m) == sortStrings(rangeKeys(m, iter))

\* C9: for a Sequence whose first item is a Mapping the headers are [key]
\* and the sorted keys of the first item, every item that is a Mapping has a
\* row of as many cells as there are headers, and the cell of a key the item
\* does not hold is empty.
C9_MissingKeyEmptyCell ==
    (SliceShown /\ IsMap(Elems(outcome.val)[1])) =>
        LET v == Elems(outcome.val)
            hs == <<keyHeader>> \o SortedKeys(Fields(v[1]))
        IN /\ Shown.header = hs
           /\ \A i \in 1..Len(v) :
                IsMap(v[i]) =>
                    /\ Len(Shown.rows[i]) = Len(hs)
                    /\ \A j \in 2..Len(hs) :
                        hs[j] \notin DOMAIN Fields(v[i]) =>
                            /\ Shown.rows[i][j].text = <<>>
                            /\ Shown.rows[i][j].nested = <<>>

\* what C9 says of the headers and of the number of cells
C9_HeadersAndWidth ==
    (SliceShown /\ IsMap(Elems(outcome.val)[1])) =>
        LET v == Elems(outcome.val)
            hs == <<keyHeader>> \o SortedKeys(Fields(v[1]))
        IN /\ Shown.header = hs
           /\ \A i \in 1..Len(v) : IsMap(v[i]) => Len(Shown.rows[i]) = Len(hs)

\* the cell of a value that is not a nested table shows the text t
ShowsText(c, t) == c.nested = <<>> /\ c.text = t

\* C10: for a Sequence whose first item is not a Mapping every item, a later
\* Mapping included, has the two-cell row [index, formatted value].
C10_EveryItemTwoCells ==
    (SliceShown /\ ~IsMap(Elems(outcome.val)[1])) =>
        LET v == Elems(outcome.val)
        IN \A i \in 1..Len(v) :
            /\ Len(Shown.rows[i]) = 2
            /\ ShowsText(Shown.rows[i][1], sprintD(i - 1))
            /\ Shown.rows[i][2] =
                    Styled(formatValue(v[i], Options), Options,
                           getStyle(v[i]), getHTMLClass(v[i]))

\* what C10 says of the items that are not Mappings
C10_NonMappingItems ==
    (SliceShown /\ ~IsMap(Elems(outcome.val)[1])) =>
        LET v == Elems(outcome.val)
        IN \A i \in 1..Len(v) :
            ~IsMap(v[i]) =>
                /\ Len(Shown.rows[i]) = 2
                /\ ShowsText(Shown.rows[i][1], sprintD(i - 1))
                /\ Shown.rows[i][2] =
                        Styled(formatValue(v[i], Options), Options,
                               getStyle(v[i]), getHTMLClass(v[i]))

----------------------------------------------------------------------------
(* Text values: truncation and whitespace *)

\* part_001: render(data, *format, *details, *maxWidth)
RenderKeyOnly ==
    /\ build = "p001" /\ pc = "selected"
    /\ LET out == <<renderRecursive(outcome.val, Options)>>
       IN IF out[1].panic
          THEN pc' = "panicked" /\ rendered' = <<>>
          ELSE pc' = "rendered" /\ rendered' = out
    /\ UNCHANGED <<inputs, view, path, pos, current, fullPath, outcome>>

\* bounds: longest text value, widest -w
MaxText == 5
MaxWidth == 5

TextsOver(chars, n) == UNION {[1..k -> chars] : k \in 0..n}

\* a string at the root, or the one value of a map
TextInputs(texts) ==
    {Str(t) : t \in texts} \cup {MapV([k \in {ka} |-> Str(t)]) : t \in texts}

TruncInit ==
    /\ build \in {"main", "p001"}
    /\ data \in TextInputs(TextsOver({"a", " ", "\r", "\n"}, MaxText))
    /\ isMultiDoc = FALSE
    /\ selector = <<".">>
    /\ format = "table"
    /\ details = FALSE
    /\ maxWidth \in 4..MaxWidth
    /\ isTerm = FALSE
    /\ iter = <<kB, ka, kab>>
    /\ NoTerminal
    /\ Idle

TruncNext ==
    \/ ApplySelectorIdentity
    \/ KeyOnlyIdentity
    \/ Render
    \/ RenderKeyOnly

TruncSpec == TruncInit /\ [][TruncNext]_vars

\* the text value of the input and the cell rendered for it
SourceText == IF IsMap(data) THEN Fields(data)[ka][2] ELSE data[2]
ShownText == Shown.rows[1][2].text

TextRendered ==
    /\ pc = "rendered" /\ selector = <<".">>
    /\ (IsMap(data) => DOMAIN Fields(data) = {ka} /\ Fields(data)[ka][1] = "str")
    /\ (~IsMap(data) => data[1] = "str")

Dots == <<".", ".", ".">>

\* C11: for maxWidth >= 4 the cell of a string is its normalized text when
\* that is at most maxWidth long (len, in bytes), and otherwise the first
\* maxWidth-3 characters of the normalized text followed by "..."; it is never
\* longer than maxWidth.
C11_TruncationLength ==
    (TextRendered /\ format = "table" /\ maxWidth >= 4) =>
        LET n == IF build = "p001" THEN normalizeSpaceKeyOnly(SourceText)
                 ELSE normalizeSpace(SourceText)
        IN /\ Len(n) <= maxWidth => ShownText = n
           /\ Len(n) > maxWidth => ShownText = SubSeq(n, 1, maxWidth - 3) \o Dots
           /\ Len(ShownText) <= maxWidth

\* five characters have been cut to one and the dots at width 4
C11_Witness ==
    /\ build = "main" /\ TextRendered /\ maxWidth = 4
    /\ SourceText = <<"a", "a", "a", "a", "a">>
    /\ ShownText = <<"a">> \o Dots

\* every CR and LF replaced by a space
RECURSIVE BreaksToSpaces(_)
BreaksToSpaces(s) ==
    IF s = <<>> THEN <<>>
    ELSE <<IF Head(s) \in {"\r", "\n"} THEN " " ELSE Head(s)>> \o BreaksToSpaces(Tail(s))

\* every run of spaces reduced to one space
RECURSIVE RunsToOne(_)
RunsToOne(s) ==
    IF Len(s) < 2 THEN s
    ELSE IF s[1] = " " /\ s[2] = " " THEN RunsToOne(Tail(s))
    ELSE <<Head(s)>> \o RunsToOne(Tail(s))

Trimmed(s) ==
    LET keep == {i \in 1..Len(s) : s[i] \notin Whitespace}
    IN IF keep = {} THEN <<>>
       ELSE SubSeq(s, CHOOSE i \in keep : \A j \in keep : i <= j,
                      CHOOSE i \in keep : \A j \in keep : i >= j)

\* the normalization as stated: breaks to spaces, runs to one space, trimmed
StatedNormal(s) == Trimmed(RunsToOne(BreaksToSpaces(s)))

CleanText(r) ==
    /\ \A i \in 1..Len(r) : r[i] \notin {"\r", "\n"}
    /\ \A i \in 1..(Len(r) - 1) : ~(r[i] = " " /\ r[i + 1] = " ")

\* C12: truncateValue replaces every CR and every LF by one space, collapses
\* runs of spaces and trims the ends, so words separated only by a CR stay
\* separated by one space, and the result holds no CR, no LF and no two
\* consecutive spaces.
C12_WhitespaceNormalized ==
    (TextRendered /\ format = "table" /\ maxWidth >= 4) =>
        /\ ShownText = cutToWidth(StatedNormal(SourceText), maxWidth).text
        /\ CleanText(ShownText)

\* the part of C12 that holds in both programs
C12_CleanText ==
    (TextRendered /\ format = "table" /\ maxWidth >= 4) => CleanText(ShownText)

\* C12 holds of part_001's truncateValue
C12_KeyOnlyNormalized ==
    (build = "p001" /\ TextRendered /\ format = "table" /\ maxWidth >= 4) =>
        ShownText = cutToWidth(StatedNormal(SourceText), maxWidth).text

\* part_001 has rendered a\rb with the words kept apart
C12_KeyOnlyWitness ==
    /\ build = "p001" /\ TextRendered
    /\ SourceText = <<"a", "\r", "a">>
    /\ ShownText = <<"a", " ", "a">>

----------------------------------------------------------------------------
(* Text values: HTML escaping *)

\* bound: longest text value escaped
MaxEsc == 3

EscInit ==
    /\ build = "main"
    /\ data \in TextInputs(TextsOver({"a", "&", "<", ">", "\"", "'"}, MaxEsc))
    /\ isMultiDoc = FALSE
    /\ selector = <<".">>
    /\ format \in {"table", "html"}
    /\ details = FALSE
    /\ maxWidth = maxValueWidth
    /\ isTerm = FALSE
    /\ iter = <<kB, ka, kab>>
    /\ NoTerminal
    /\ Idle

EscNext ==
    \/ ApplySelectorIdentity
    \/ Render

EscSpec == EscInit /\ [][EscNext]_vars

Entity(c) ==
    CASE c = "&" -> ampEntity
      [] c = "<" -> ltEntity
      [] c = ">" -> gtEntity
      [] c = "\"" -> quotEntity
      [] c = "'" -> aposEntity
      [] OTHER -> <<c>>

\* each of the five characters replaced once by its entity
EscapedOnce(s) == Concat([i \in 1..Len(s) |-> Entity(s[i])])

\* C13: in HTML output the cell of every scalar, nested or at the root, holds
\* the value with & < > " ' each escaped exactly once (< as &lt;, never as
\* &amp;lt;), and no raw < or > of the value.
C13_ScalarsEscaped ==
    (TextRendered /\ format = "html") =>
        /\ ShownText = EscapedOnce(SourceText)
        /\ \A i \in 1..Len(ShownText) : ShownText[i] \notin {"<", ">"}

\* C13 holds of a scalar that is the value of a key
C13_NestedEscaped ==
    (TextRendered /\ format = "html" /\ IsMap(data)) =>
        /\ ShownText = EscapedOnce(SourceText)
        /\ \A i \in 1..Len(ShownText) : ShownText[i] \notin {"<", ">"}

\* the value <& of a key has been rendered as &lt;&amp;
C13_NestedWitness ==
    /\ TextRendered /\ format = "html" /\ IsMap(data)
    /\ SourceText = <<"<", "&">>
    /\ ShownText = ltEntity \o ampEntity

----------------------------------------------------------------------------
(* Styled text: a line is a sequence of runes; ESC stands for the rune \x1b *)

ESC == "ESC"

LowerCase == {"a", "b", "c", "d", "e", "f", "g", "h", "i", "j", "k", "l", "m", "n", "o", "p", "q", "r", "s", "t", "u", "v", "w", "x", "y", "z"}
UpperCase == {"A", "B", "C", "D", "E", "F", "G", "H", "I", "J", "K", "L", "M", "N", "O", "P", "Q", "R", "S", "T", "U", "V", "W", "X", "Y", "Z"}

\* (r >= 'A' && r <= 'Z') || (r >= 'a' && r <= 'z')
isLetter(r) == r \in LowerCase \cup UpperCase

\* stripANSI: the runes outside escape runs; a run starts at ESC and ends with
\* the first letter after it
RECURSIVE stripFrom(_, _)
stripFrom(s, inEscape) ==
    IF s = <<>> THEN <<>>
    ELSE IF Head(s) = ESC THEN stripFrom(Tail(s), TRUE)
    ELSE IF inEscape THEN stripFrom(Tail(s), ~isLetter(Head(s)))
    ELSE <<Head(s)>> \o stripFrom(Tail(s), FALSE)

stripANSI(s) == stripFrom(s, FALSE)

\* lipgloss.Width of a line of single-width runes: escape runs are not counted
lineWidth(line) == Len(stripANSI(line))

\* getContentWidth: the width of the widest line
getContentWidth(lines) ==
    IF lines = <<>> THEN 0
    ELSE CHOOSE w \in {lineWidth(lines[i]) : i \in 1..Len(lines)} :
            \A i \in 1..Len(lines) : lineWidth(lines[i]) <= w

\* render's test for the interactive viewer, >= in place of >
usesPagerAtEqualWidth(fmt, term, cw, tw) == fmt = "table" /\ term /\ cw >= tw

\* render: format == "table" && isTerminal() and contentWidth > termWidth
usesPager(fmt, term, cw, tw) == fmt = "table" /\ term /\ cw > tw

\* the model render hands to tea.NewProgram
newModel(lines) ==
    [content |-> lines,
     plainContent |-> [i \in 1..Len(lines) |-> stripANSI(lines[i])],
     contentWidth |-> getContentWidth(lines),
     ready |-> FALSE, width |-> 0, height |-> 0,
     searchMode |-> FALSE, searchInput |-> <<>>, searchTerm |-> <<>>,
     matches |-> <<>>, currentMatch |-> 0,
     xOffset |-> 0,
     viewport |-> [Width |-> 0, Height |-> 0, YOffset |-> 0, lines |-> <<>>]]

\* render: the pager is started
StartPager ==
    /\ build = "main" /\ pc = "rendered"
    /\ usesPager(format, isTerm, getContentWidth(output), termWidth)
    /\ pager' = newModel(output)
    /\ pc' = "pager"
    /\ UNCHANGED <<inputs, opened, path, pos, current, fullPath, outcome, rendered>>

\* render: the output is printed (for HTML after the style sheet)
PrintOutput ==
    /\ build = "main" /\ pc = "rendered"
    /\ ~usesPager(format, isTerm, getContentWidth(output), termWidth)
    /\ pc' = "printed"
    /\ UNCHANGED <<inputs, view, path, pos, current, fullPath, outcome, rendered>>

\* render: p.Run() returned an error and the output is printed after all
PagerFails ==
    /\ build = "main" /\ pc = "pager"
    /\ pc' = "printed"
    /\ UNCHANGED <<inputs, view, path, pos, current, fullPath, outcome, rendered>>

\* bounds: pieces of an output line, columns of the terminal
MaxPieces == 3
MaxCols == 3

SgrOn == <<ESC, "[", "1", "m">>
SgrOff == <<ESC, "[", "0", "m">>

\* lines made of visible characters and styling sequences
StyledLines(chars, n) ==
    {Concat(ps) : ps \in UNION {[1..k -> {<<c>> : c \in chars} \cup {SgrOn, SgrOff}] :
                                 k \in 0..n}}

PresentInit ==
    /\ build = "main"
    /\ data = vs
    /\ isMultiDoc = FALSE
    /\ selector = <<".">>
    /\ format \in {"table", "html", "markdown"}
    /\ details = FALSE
    /\ maxWidth = maxValueWidth
    /\ isTerm \in BOOLEAN
    /\ iter = <<kB, ka, kab>>
    /\ output \in {<<l>> : l \in StyledLines({"a", "b"}, MaxPieces)}
    /\ termWidth \in 1..MaxCols
    /\ Idle

PresentNext ==
    \/ ApplySelectorIdentity
    \/ Render
    \/ StartPager
    \/ PrintOutput
    \/ PagerFails

PresentSpec == PresentInit /\ [][PresentNext]_vars

\* position i of the line lies in an escape run: an ESC at or before it with
\* no letter strictly between the two
Hidden(line, i) ==
    \E j \in 1..i :
        /\ line[j] = ESC
        /\ \A k \in (j + 1)..(i - 1) : ~isLetter(line[k])

\* the visible characters of a line, in order
VisibleOf(line) ==
    LET Keep(i) == ~Hidden(line, i)
        idx == SelectSeq([i \in 1..Len(line) |-> i], Keep)
    IN [n \in 1..Len(idx) |-> line[idx[n]]]

WiderThanTerminal == \E i \in 1..Len(output) : Len(VisibleOf(output[i])) > termWidth

PagerStarted == pager # NoModel

\* C14: render starts the pager exactly when the format is table, standard
\* output is a terminal and the widest rendered line is wider than the
\* terminal; otherwise (every HTML render included) the text is printed and
\* the pager never starts.
C14_PagerEntry ==
    (pc \in {"pager", "printed"}) =>
        /\ PagerStarted <=> (format = "table" /\ isTerm /\ WiderThanTerminal)
        /\ ~PagerStarted => pc = "printed"

\* the pager runs for a line one column wider than the terminal
C14_Witness ==
    /\ pc = "pager" /\ format = "table" /\ isTerm
    /\ getContentWidth(output) = termWidth + 1

----------------------------------------------------------------------------
(* The pager of main.go: model.Update, findMatches, jumpToMatch,            *)
(* renderContent.  The viewport and the text input are components from      *)
(* outside the repository: SetYOffset, GotoTop and SetContent are taken to  *)
(* store what they are given, a typed character is appended to the input    *)
(* and backspace removes the last one.                                      *)

LowerSeq == <<"a", "b", "c", "d", "e", "f", "g", "h", "i", "j", "k", "l", "m", "n", "o", "p", "q", "r", "s", "t", "u", "v", "w", "x", "y", "z">>
UpperSeq == <<"A", "B", "C", "D", "E", "F", "G", "H", "I", "J", "K", "L", "M", "N", "O", "P", "Q", "R", "S", "T", "U", "V", "W", "X", "Y", "Z">>

\* strings.ToLower, rune by rune
lowerRune(r) ==
    IF r \in UpperCase THEN LowerSeq[CHOOSE i \in 1..26 : UpperSeq[i] = r] ELSE r

toLower(s) == [i \in 1..Len(s) |-> lowerRune(s[i])]

\* strings.Index(s, sub): the 0-based position of the first occurrence, or -1
indexOf(s, sub) ==
    LET at == {i \in 0..(Len(s) - Len(sub)) : SubSeq(s, i + 1, i + Len(sub)) = sub}
    IN IF at = {} THEN 0 - 1 ELSE CHOOSE i \in at : \A j \in at : i <= j

\* findMatches: the inner loop over one line, from column col on
RECURSIVE lineMatches(_, _, _, _)
lineMatches(lineLower, searchLower, lineNum, col) ==
    LET idx == indexOf(SubSeq(lineLower, col + 1, Len(lineLower)), searchLower)
    IN IF idx = 0 - 1 THEN <<>>
       ELSE <<[line |-> lineNum, col |-> col + idx]>>
                \o lineMatches(lineLower, searchLower, lineNum, col + idx + 1)

\* findMatches: m.matches for the term over m.plainContent
findMatches(plainContent, searchTerm) ==
    IF searchTerm = <<>> THEN <<>>
    ELSE LET found == Concat([i \in 1..Len(plainContent) |->
                        lineMatches(toLower(plainContent[i]), toLower(searchTerm), i - 1, 0)])
         IN [i \in 1..Len(found) |->
                [line |-> found[i].line, col |-> found[i].col, text |-> searchTerm]]

\* the escape sequences highlightStyle, currentMatchStyle and the reset
hlOn == <<ESC, "[", "7", "m">>
curOn == <<ESC, "[", "4", "m">>
styleOff == <<ESC, "[", "0", "m">>

\* renderContent: one line with its matches ms, from match i on
RECURSIVE highlightFrom(_, _, _, _, _)
highlightFrom(mm, line, ms, i, lastPos) ==
    IF i > Len(ms) THEN <<>>
    ELSE LET mt == ms[i]
             n == Len(mm.searchTerm)
             before == IF mt.col > lastPos THEN SubSeq(line, lastPos + 1, mt.col) ELSE <<>>
             matchText == SubSeq(line, mt.col + 1, mt.col + n)
             isCurrentMatch ==
                 /\ mm.currentMatch + 1 \in 1..Len(mm.matches)
                 /\ mm.matches[mm.currentMatch + 1].line = mt.line
                 /\ mm.matches[mm.currentMatch + 1].col = mt.col
             after == IF i = Len(ms) /\ mt.col + n < Len(line)
                      THEN SubSeq(line, mt.col + n + 1, Len(line)) ELSE <<>>
         IN before \o (IF isCurrentMatch THEN curOn ELSE hlOn) \o matchText \o styleOff
                \o after \o highlightFrom(mm, line, ms, i + 1, mt.col + n)

renderContent(mm) ==
    IF mm.searchTerm = <<>> THEN mm.content
    ELSE [l \in 1..Len(mm.content) |->
            LET OnLine(x) == x.line = l - 1
                ms == SelectSeq(mm.matches, OnLine)
            IN IF ms = <<>> THEN mm.content[l]
               ELSE highlightFrom(mm, mm.plainContent[l], ms, 1, 0)]

\* viewport.SetContent(m.renderContent())
setContent(mm) == [mm EXCEPT !.viewport.lines = renderContent(mm)]

\* jumpToMatch
jumpToMatch(mm) ==
    IF Len(mm.matches) = 0 THEN mm
    ELSE [mm EXCEPT !.viewport.YOffset = mm.matches[mm.currentMatch + 1].line]

\* (m.currentMatch + 1) % len(m.matches)
nextIndex(i, k) == (i + 1) % k

\* (m.currentMatch - 1 + len(m.matches)) % len(m.matches)
prevIndex(i, k) == (i - 1 + k) % k

\* messages: a key press by its name (msg.String()) or a window size
Key(k) == <<"key", k>>
Size(w, h) == <<"size", w, h>>

\* the keys that stand for one printable character
Printable == {"a", "A", "b", "q", "/", "n", "N", "p", "l", "h", "g", "G", "0", "$"}

\* searchInput.Update(msg): the text input takes the key
inputUpdate(value, k) ==
    IF k \in Printable THEN Append(value, k)
    ELSE IF k = "backspace" /\ value # <<>> THEN SubSeq(value, 1, Len(value) - 1)
    ELSE value

\* Update, case "enter" closing the search box whatever was found
commitSearchAlwaysCloses(mm) ==
    LET m1 == [mm EXCEPT !.searchTerm = mm.searchInput,
                         !.matches = findMatches(mm.plainContent, mm.searchInput),
                         !.searchMode = FALSE]
        m2 == IF Len(m1.matches) > 0 THEN jumpToMatch([m1 EXCEPT !.currentMatch = 0]) ELSE m1
    IN setContent(m2)

\* Update, case "enter" with the matches of the previous term kept
commitSearchStaleMatches(mm) ==
    LET m1 == [mm EXCEPT !.searchTerm = mm.searchInput]
        m2 == IF Len(m1.matches) > 0
              THEN [jumpToMatch([m1 EXCEPT !.currentMatch = 0]) EXCEPT !.searchMode = FALSE]
              ELSE m1
    IN setContent(m2)

\* Update, case "enter" with the cursor left where it was
commitSearchKeepsCursor(mm) ==
    LET m1 == [mm EXCEPT !.searchTerm = mm.searchInput,
                         !.matches = findMatches(mm.plainContent, mm.searchInput)]
        m2 == IF Len(m1.matches) > 0 THEN [m1 EXCEPT !.searchMode = FALSE] ELSE m1
    IN setContent(m2)

\* Update, case "enter" of the search mode
commitSearch(mm) ==
    LET m1 == [mm EXCEPT !.searchTerm = mm.searchInput,
                         !.matches = findMatches(mm.plainContent, mm.searchInput)]
        m2 == IF Len(m1.matches) > 0
              THEN [jumpToMatch([m1 EXCEPT !.currentMatch = 0]) EXCEPT !.searchMode = FALSE]
              ELSE m1
    IN setContent(m2)

\* Update, case "n" with the cursor kept at the last match
stepMatchNoWrap(mm, back) ==
    IF Len(mm.matches) > 0
    THEN setContent(jumpToMatch([mm EXCEPT !.currentMatch =
            IF back THEN prevIndex(mm.currentMatch, Len(mm.matches))
            ELSE IF mm.currentMatch + 1 < Len(mm.matches)
                 THEN mm.currentMatch + 1 ELSE mm.currentMatch]))
    ELSE mm

\* Update, cases "n" and "N", "p"
stepMatch(mm, back) ==
    IF Len(mm.matches) > 0
    THEN setContent(jumpToMatch([mm EXCEPT !.currentMatch =
            IF back THEN prevIndex(mm.currentMatch, Len(mm.matches))
            ELSE nextIndex(mm.currentMatch, Len(mm.matches))]))
    ELSE mm

\* Update, case tea.WindowSizeMsg
resize(mm, w, h) ==
    LET m1 == [mm EXCEPT !.width = w, !.height = h]
    IN IF ~mm.ready
       THEN [m1 EXCEPT !.viewport = [Width |-> w, Height |-> h - 1, YOffset |-> 0,
                                     lines |-> renderContent(m1)],
                       !.ready = TRUE]
       ELSE [m1 EXCEPT !.viewport.Width = w, !.viewport.Height = h - 1]

\* model.Update: the model after the message and whether tea.Quit is
\* returned; y is the line the viewport settles on when a key is left to it
Update(mm, e, y) ==
    IF e[1] = "size" THEN [model |-> resize(mm, e[2], e[3]), quit |-> FALSE]
    ELSE IF mm.searchMode
    THEN CASE e[2] = "esc" -> [model |-> [mm EXCEPT !.searchMode = FALSE], quit |-> FALSE]
           [] e[2] = "enter" -> [model |-> commitSearch(mm), quit |-> FALSE]
           [] OTHER -> [model |-> [mm EXCEPT !.searchInput = inputUpdate(mm.searchInput, e[2])],
                        quit |-> FALSE]
    ELSE CASE e[2] \in {"q", "ctrl+c"} -> [model |-> mm, quit |-> TRUE]
           [] e[2] = "/" -> [model |-> [mm EXCEPT !.searchMode = TRUE, !.searchInput = <<>>],
                             quit |-> FALSE]
           [] e[2] = "n" -> [model |-> stepMatch(mm, FALSE), quit |-> FALSE]
           [] e[2] \in {"N", "p"} -> [model |-> stepMatch(mm, TRUE), quit |-> FALSE]
           [] e[2] \in {"l", "right", "h", "left"} -> [model |-> mm, quit |-> FALSE]
           [] e[2] \in {"g", "home"} -> [model |-> [mm EXCEPT !.viewport.YOffset = 0],
                                         quit |-> FALSE]
           [] OTHER -> [model |-> [mm EXCEPT !.viewport.YOffset = y], quit |-> FALSE]

\* what the search box found when it was opened
Snapshot(mm) ==
    [searchTerm |-> mm.searchTerm, matches |-> mm.matches, currentMatch |-> mm.currentMatch]

\* the pager of main.go is running
Running == pc = "pager" /\ build = "main"

\* one message delivered to the running pager
PagerStep(e, y) ==
    /\ Running
    /\ LET r == Update(pager, e, y)
       IN /\ pager' = r.model
          /\ pc' = IF r.quit THEN "quit" ELSE "pager"
    /\ opened' = IF e = Key("/") /\ ~pager.searchMode THEN Snapshot(pager) ELSE opened
    /\ UNCHANGED <<inputs, path, pos, current, fullPath, outcome, rendered>>

\* bounds: characters typed into the search box, rows of the terminal,
\* characters of a line of the paged text
MaxTyped == 1
MaxRows == 2
MaxLine == 3

\* the characters typed while the search box is open
TypedRunes == {"a", "b"}

WindowSize == PagerStep(Size(termWidth, MaxRows), 0)

PressEsc == Running /\ PagerStep(Key("esc"), pager.viewport.YOffset)

PressEnter == Running /\ PagerStep(Key("enter"), pager.viewport.YOffset)

PressSlash == Running /\ ~pager.searchMode /\ PagerStep(Key("/"), 0)

\* a character is typed into a search box holding fewer than limit characters
TypeRune(limit) ==
    /\ Running /\ pager.searchMode /\ Len(pager.searchInput) < limit
    /\ \E c \in TypedRunes : PagerStep(Key(c), 0)

PressRune == TypeRune(MaxTyped)

PressBackspace == Running /\ pager.searchMode /\ PagerStep(Key("backspace"), 0)

PressNext == Running /\ ~pager.searchMode /\ PagerStep(Key("n"), 0)

PressPrev == Running /\ ~pager.searchMode /\ \E k \in {"N", "p"} : PagerStep(Key(k), 0)

PressQuit == Running /\ ~pager.searchMode /\ \E k \in {"q", "ctrl+c"} : PagerStep(Key(k), 0)

PressScroll ==
    /\ Running /\ ~pager.searchMode
    /\ \E k \in {"l", "h", "g", "G", "down", "up"} :
          \E y \in 0..(Len(pager.content) - 1) : PagerStep(Key(k), y)

\* the paged texts: one line of MaxLine characters, two short lines, or a
\* styled line
PagedTexts ==
    {<<l>> : l \in [1..MaxLine -> {"a", "A"}]}
        \cup {<<l1, l2>> : l1, l2 \in [1..2 -> {"a", "b"}]}
        \cup {<<SgrOn \o l \o SgrOff>> : l \in [1..2 -> {"a", "b"}]}

PagerInit ==
    /\ build = "main"
    /\ data = vs
    /\ isMultiDoc = FALSE
    /\ selector = <<".">>
    /\ format = "table"
    /\ details = FALSE
    /\ maxWidth = maxValueWidth
    /\ isTerm = TRUE
    /\ iter = <<kB, ka, kab>>
    /\ output \in PagedTexts
    /\ termWidth = 1
    /\ Idle

PagerNext ==
    \/ ApplySelectorIdentity
    \/ Render
    \/ StartPager
    \/ WindowSize
    \/ PressEsc
    \/ PressEnter
    \/ PressSlash
    \/ PressRune
    \/ PressBackspace
    \/ PressNext
    \/ PressPrev
    \/ PressQuit
    \/ PressScroll

PagerSpec == PagerInit /\ [][PagerNext]_vars

\* C15: Enter in the search box always commits: the term becomes the typed
\* text, the matches are recomputed for it, the cursor goes to the first
\* match when there is one, and the pager is back in normal mode, whether or
\* not the term has any match.
C15_EnterCommits ==
    (Running /\ pager.searchMode) =>
        LET after == Update(pager, Key("enter"), 0).model
        IN /\ after.searchTerm = pager.searchInput
           /\ after.matches = findMatches(pager.plainContent, pager.searchInput)
           /\ (after.matches # <<>> => after.currentMatch = 0)
           /\ ~after.searchMode

\* Enter commits the term and recomputes the matches in every case, and
\* returns to normal mode with the cursor on the first match when the term
\* has a match
C15_EnterWithMatch ==
    (Running /\ pager.searchMode) =>
        LET after == Update(pager, Key("enter"), 0).model
        IN /\ after.searchTerm = pager.searchInput
           /\ after.matches = findMatches(pager.plainContent, pager.searchInput)
           /\ (after.matches # <<>> => after.currentMatch = 0 /\ ~after.searchMode)

\* Enter was pressed on a term without a match and the box is still open
C15_StillEditing ==
    /\ Running /\ pager.searchMode
    /\ pager.searchTerm # <<>> /\ pager.searchTerm = pager.searchInput
    /\ pager.matches = <<>>

\* C16: Esc in the search box returns the pager to normal mode and leaves
\* the search term, the match list and the current-match cursor exactly as
\* they were before the search box was opened, whatever was typed in between.
C16_EscRestores ==
    (Running /\ pager.searchMode) =>
        LET after == Update(pager, Key("esc"), 0).model
        IN ~after.searchMode /\ Snapshot(after) = opened

\* Esc itself closes the box and changes neither the term, the matches nor
\* the cursor; typing changes none of them either
C16_EscChangesNothing ==
    (Running /\ pager.searchMode) =>
        /\ LET after == Update(pager, Key("esc"), 0).model
           IN ~after.searchMode /\ Snapshot(after) = Snapshot(pager)
        /\ \A c \in TypedRunes \cup {"backspace"} :
              LET after == Update(pager, Key(c), 0).model
              IN after.searchMode /\ Snapshot(after) = Snapshot(pager)

\* the box is open on a term that is not the one it was opened with
C16_TermReplacedInBox ==
    /\ Running /\ pager.searchMode
    /\ opened.matches # <<>>
    /\ pager.searchTerm # opened.searchTerm

\* C17: in normal mode n moves the match cursor to the next match, from the
\* last one round to the first, and N and p move it to the previous match,
\* from the first one round to the last; each press sets the vertical
\* offset of the viewport to the line of the match; with an empty match
\* list the keys change nothing.
C17_MatchNavigation ==
    (Running /\ ~pager.searchMode) =>
        LET k == Len(pager.matches)
            i == pager.currentMatch
            LineOf(mm) == mm.matches[mm.currentMatch + 1].line
            fwd == Update(pager, Key("n"), 0)
        IN /\ ~fwd.quit
           /\ fwd.model.matches = pager.matches
           /\ k = 0 => fwd.model = pager
           /\ k > 0 => /\ i \in 0..(k - 1)
                       /\ fwd.model.currentMatch = (IF i = k - 1 THEN 0 ELSE i + 1)
                       /\ fwd.model.viewport.YOffset = LineOf(fwd.model)
           /\ \A key \in {"N", "p"} :
                 LET bwd == Update(pager, Key(key), 0)
                 IN /\ ~bwd.quit
                    /\ bwd.model.matches = pager.matches
                    /\ k = 0 => bwd.model = pager
                    /\ k > 0 => /\ bwd.model.currentMatch = (IF i = 0 THEN k - 1 ELSE i - 1)
                                /\ bwd.model.viewport.YOffset = LineOf(bwd.model)

\* the cursor was moved to the last of several matches, on the second line,
\* and the viewport was moved there from the top
C17_Witness ==
    /\ Running /\ ~pager.searchMode
    /\ Len(pager.matches) >= 2
    /\ pager.currentMatch = Len(pager.matches) - 1
    /\ pager.matches[Len(pager.matches)].line = 1
    /\ pager.matches[1].line = 0
    /\ pager.viewport.YOffset = 1

----------------------------------------------------------------------------
(* findMatches over short lines and terms: the term is typed and committed. *)

\* bound: characters of a search term
MaxTerm == 2

TypeTerm == TypeRune(MaxTerm)

\* the searched texts: one line of MaxLine characters or two short lines
SearchedTexts ==
    {<<l>> : l \in [1..MaxLine -> {"a", "A", "b"}]}
        \cup {<<l1, l2>> : l1, l2 \in [1..2 -> {"a", "b"}]}

FindInit ==
    /\ build = "main"
    /\ data = vs
    /\ isMultiDoc = FALSE
    /\ selector = <<".">>
    /\ format = "table"
    /\ details = FALSE
    /\ maxWidth = maxValueWidth
    /\ isTerm = TRUE
    /\ iter = <<kB, ka, kab>>
    /\ output \in SearchedTexts
    /\ termWidth = 1
    /\ Idle

FindNext ==
    \/ ApplySelectorIdentity
    \/ Render
    \/ StartPager
    \/ WindowSize
    \/ PressSlash
    \/ TypeTerm
    \/ PressEnter

FindSpec == FindInit /\ [][FindNext]_vars

\* the term occurs at column c of line l, whatever the case of the letters
Occurs(l, c) ==
    LET line == pager.plainContent[l + 1]
        n == Len(pager.searchTerm)
    IN /\ c + n <= Len(line)
       /\ \A i \in 1..n :
             \/ line[c + i] = pager.searchTerm[i]
             \/ \E j \in 1..26 :
                   {line[c + i], pager.searchTerm[i]} = {LowerSeq[j], UpperSeq[j]}

Recorded(l, c) == \E i \in 1..Len(pager.matches) :
                     pager.matches[i].line = l /\ pager.matches[i].col = c

\* the match list is strictly increasing by (line, column)
MatchesIncreasing ==
    \A i \in 1..(Len(pager.matches) - 1) :
        LET x == pager.matches[i]
            y == pager.matches[i + 1]
        IN x.line < y.line \/ (x.line = y.line /\ x.col < y.col)

Committed == Running /\ pager.searchTerm # <<>>

\* C18: findMatches records case-insensitive occurrences of the committed
\* term in the stripped lines, only non-overlapping ones taken left to
\* right: two matches on a line are at least len(term) columns apart, an
\* occurrence is left out only when it overlaps a recorded one to its left,
\* and the list is strictly increasing by (line, column).
C18_NonOverlappingMatches ==
    Committed =>
        LET n == Len(pager.searchTerm)
            lines == 0..(Len(pager.plainContent) - 1)
            cols == 0..MaxLine
        IN /\ \A i \in 1..Len(pager.matches) :
                 /\ Occurs(pager.matches[i].line, pager.matches[i].col)
                 /\ pager.matches[i].text = pager.searchTerm
           /\ \A i, j \in 1..Len(pager.matches) :
                 (i < j /\ pager.matches[i].line = pager.matches[j].line)
                     => pager.matches[j].col - pager.matches[i].col >= n
           /\ \A l \in lines : \A c \in cols :
                 (Occurs(l, c) /\ ~Recorded(l, c))
                     => \E b \in cols : b < c /\ c < b + n /\ Recorded(l, b)
           /\ MatchesIncreasing

\* findMatches records every case-insensitive occurrence of the committed
\* term, overlapping ones included, strictly increasing by (line, column)
C18_EveryOccurrence ==
    Committed =>
        /\ \A l \in 0..(Len(pager.plainContent) - 1) : \A c \in 0..MaxLine :
              Recorded(l, c) <=> Occurs(l, c)
        /\ \A i \in 1..Len(pager.matches) : pager.matches[i].text = pager.searchTerm
        /\ MatchesIncreasing

\* a term and a line in different cases gave matches on overlapping columns
C18_OverlapRecorded ==
    /\ Committed
    /\ Len(pager.searchTerm) = 2
    /\ \E i \in 1..(Len(pager.matches) - 1) :
          /\ pager.matches[i + 1].line = pager.matches[i].line
          /\ pager.matches[i + 1].col = pager.matches[i].col + 1
    /\ pager.plainContent[1] # toLower(pager.plainContent[1])

----------------------------------------------------------------------------
(* The pager of part_001: horizontal scrolling by slicing every line.       *)

\* columns of one horizontal step
scrollStep == 5

\* sliceLine: the window test with the first column of the window left out
inWindowAfterOffset(visiblePos, writtenChars, offset, width) ==
    visiblePos > offset /\ writtenChars < width

\* sliceLine: visiblePos >= offset && writtenChars < width
inWindow(visiblePos, writtenChars, offset, width) ==
    visiblePos >= offset /\ writtenChars < width

\* sliceLine: the loop over the runes from rune i on, and the final flush of
\* ansiBuffer
RECURSIVE sliceFrom(_, _, _, _, _, _, _, _)
sliceFrom(runes, i, offset, width, inAnsi, ansiBuffer, visiblePos, writtenChars) ==
    IF i > Len(runes) THEN ansiBuffer
    ELSE LET r == runes[i]
         IN IF r = ESC
            THEN sliceFrom(runes, i + 1, offset, width, TRUE, Append(ansiBuffer, r),
                           visiblePos, writtenChars)
            ELSE IF inAnsi
            THEN IF isLetter(r)
                 THEN Append(ansiBuffer, r)
                          \o sliceFrom(runes, i + 1, offset, width, FALSE, <<>>,
                                       visiblePos, writtenChars)
                 ELSE sliceFrom(runes, i + 1, offset, width, TRUE, Append(ansiBuffer, r),
                                visiblePos, writtenChars)
            ELSE LET take == inWindow(visiblePos, writtenChars, offset, width)
                     written == IF take THEN writtenChars + 1 ELSE writtenChars
                 IN (IF take THEN <<r>> ELSE <<>>)
                        \o (IF written >= width THEN ansiBuffer
                            ELSE sliceFrom(runes, i + 1, offset, width, FALSE, ansiBuffer,
                                           visiblePos + 1, written))

sliceLine(line, offset, width) ==
    IF offset = 0 /\ lineWidth(line) <= width THEN line
    ELSE IF offset >= lineWidth(line) THEN <<>>
    ELSE sliceFrom(line, 1, offset, width, FALSE, <<>>, 0, 0)

\* updateViewportContent
updateViewportContent(mm) ==
    [mm EXCEPT !.viewport.lines =
        [i \in 1..Len(mm.content) |-> sliceLine(mm.content[i], mm.xOffset, mm.width)]]

\* the model render hands to tea.NewProgram
newModelKeyOnly(lines) ==
    [content |-> lines,
     contentWidth |-> getContentWidth(lines),
     ready |-> FALSE, width |-> 0, height |-> 0,
     xOffset |-> 0,
     viewport |-> [Width |-> 0, Height |-> 0, YOffset |-> 0, lines |-> <<>>]]

\* Update, case tea.WindowSizeMsg
resizeKeyOnly(mm, w, h) ==
    LET m1 == [mm EXCEPT !.width = w, !.height = h]
    IN IF ~mm.ready
       THEN [updateViewportContent(
                [m1 EXCEPT !.viewport = [Width |-> w, Height |-> h - 1, YOffset |-> 0,
                                         lines |-> <<>>]])
                EXCEPT !.ready = TRUE]
       ELSE updateViewportContent([m1 EXCEPT !.viewport.Width = w,
                                             !.viewport.Height = h - 1])

\* Update, cases "h", "left"
scrollLeft(mm) ==
    IF mm.xOffset > 0
    THEN updateViewportContent([mm EXCEPT !.xOffset =
            IF mm.xOffset - scrollStep < 0 THEN 0 ELSE mm.xOffset - scrollStep])
    ELSE mm

\* Update, cases "l", "right"
scrollRight(mm) ==
    LET maxScroll == mm.contentWidth - mm.width
    IN IF maxScroll > 0 /\ mm.xOffset < maxScroll
       THEN updateViewportContent([mm EXCEPT !.xOffset =
               IF mm.xOffset + scrollStep > maxScroll THEN maxScroll
               ELSE mm.xOffset + scrollStep])
       ELSE mm

\* Update, case "$"
scrollEnd(mm) ==
    LET maxScroll == mm.contentWidth - mm.width
    IN IF maxScroll > 0 THEN updateViewportContent([mm EXCEPT !.xOffset = maxScroll])
       ELSE mm

\* model.Update of part_001: the model after the message and whether
\* tea.Quit is returned; y is the line the viewport settles on when a key is
\* left to it
UpdateKeyOnly(mm, e, y) ==
    IF e[1] = "size" THEN [model |-> resizeKeyOnly(mm, e[2], e[3]), quit |-> FALSE]
    ELSE CASE e[2] \in {"q", "ctrl+c", "esc"} -> [model |-> mm, quit |-> TRUE]
           [] e[2] \in {"h", "left"} -> [model |-> scrollLeft(mm), quit |-> FALSE]
           [] e[2] \in {"l", "right"} -> [model |-> scrollRight(mm), quit |-> FALSE]
           [] e[2] \in {"g", "home"} ->
                [model |-> updateViewportContent([mm EXCEPT !.viewport.YOffset = 0,
                                                            !.xOffset = 0]),
                 quit |-> FALSE]
           [] e[2] = "0" -> [model |-> updateViewportContent([mm EXCEPT !.xOffset = 0]),
                             quit |-> FALSE]
           [] e[2] = "$" -> [model |-> scrollEnd(mm), quit |-> FALSE]
           [] OTHER -> [model |-> [mm EXCEPT !.viewport.YOffset = y], quit |-> FALSE]

\* part_001, render: the pager is started
StartPagerKeyOnly ==
    /\ build = "p001" /\ pc = "rendered"
    /\ usesPager(format, isTerm, getContentWidth(output), termWidth)
    /\ pager' = newModelKeyOnly(output)
    /\ pc' = "pager"
    /\ UNCHANGED <<inputs, opened, path, pos, current, fullPath, outcome, rendered>>

\* the pager of part_001 is running
RunningKeyOnly == pc = "pager" /\ build = "p001"

\* one message delivered to the running pager
StepKeyOnly(e, y) ==
    /\ RunningKeyOnly
    /\ LET r == UpdateKeyOnly(pager, e, y)
       IN /\ pager' = r.model
          /\ pc' = IF r.quit THEN "quit" ELSE "pager"
    /\ UNCHANGED <<inputs, opened, path, pos, current, fullPath, outcome, rendered>>

Resized == RunningKeyOnly /\ \E w \in 1..MaxCols : StepKeyOnly(Size(w, MaxRows), 0)

MoveLeft == RunningKeyOnly /\ \E k \in {"h", "left"} : StepKeyOnly(Key(k), 0)

MoveRight == RunningKeyOnly /\ \E k \in {"l", "right"} : StepKeyOnly(Key(k), 0)

JumpTop == RunningKeyOnly /\ \E k \in {"g", "home"} : StepKeyOnly(Key(k), 0)

JumpLeftmost == RunningKeyOnly /\ StepKeyOnly(Key("0"), 0)

JumpRightmost == RunningKeyOnly /\ StepKeyOnly(Key("$"), 0)

QuitKeyOnly == RunningKeyOnly /\ \E k \in {"q", "ctrl+c", "esc"} : StepKeyOnly(Key(k), 0)

ScrollKeyOnly ==
    /\ RunningKeyOnly
    /\ \E k \in {"G", "end", "down", "up"} :
          \E y \in 0..(Len(pager.content) - 1) : StepKeyOnly(Key(k), y)

\* a line of plain text wider than two steps
LongLine == [i \in 1..(2 * scrollStep + 2) |-> IF i % 2 = 1 THEN "a" ELSE "b"]

\* the paged texts: a styled line, two lines, or a long line
SlicedTexts ==
    {<<l>> : l \in {t \in StyledLines({"a", "b"}, MaxPieces) : lineWidth(t) > 1}}
        \cup {<<LongLine>>, <<SgrOn \o LongLine \o SgrOff, <<"a", "b">>>>}

SliceInit ==
    /\ build = "p001"
    /\ data = vs
    /\ isMultiDoc = FALSE
    /\ selector = <<".">>
    /\ format = "table"
    /\ details = FALSE
    /\ maxWidth = maxValueWidth
    /\ isTerm = TRUE
    /\ iter = <<kB, ka, kab>>
    /\ output \in SlicedTexts
    /\ termWidth = 1
    /\ Idle

SliceNext ==
    \/ KeyOnlyIdentity
    \/ RenderKeyOnly
    \/ StartPagerKeyOnly
    \/ Resized
    \/ MoveLeft
    \/ MoveRight
    \/ JumpTop
    \/ JumpLeftmost
    \/ JumpRightmost
    \/ QuitKeyOnly
    \/ ScrollKeyOnly

SliceSpec == SliceInit /\ [][SliceNext]_vars

\* the largest horizontal offset: max(0, contentWidth - viewportWidth)
MaxOffset(mm) == IF mm.contentWidth - mm.width > 0 THEN mm.contentWidth - mm.width ELSE 0

Clamped(x, hi) == IF x < 0 THEN 0 ELSE IF x > hi THEN hi ELSE x

\* the horizontal offset after each horizontal key is the stated one
MovesAsStated ==
    LET x == pager.xOffset
        hi == MaxOffset(pager)
        After(k) == UpdateKeyOnly(pager, Key(k), 0).model.xOffset
    IN /\ \A k \in {"h", "left"} : After(k) = Clamped(x - 5, hi)
       /\ \A k \in {"l", "right"} : After(k) = Clamped(x + 5, hi)
       /\ After("0") = 0
       /\ After("$") = hi
       /\ \A k \in {"h", "left", "l", "right", "0", "$", "g", "G", "down", "q"} :
             After(k) \in 0..hi

\* C19: each left or right key shifts the horizontal offset by 5 columns,
\* clamped to 0 .. max(0, contentWidth - viewportWidth); 0 sets the offset to
\* 0 and $ sets it to that maximum; no key press leaves an offset that is
\* negative or above the maximum.
C19_HorizontalMovement == RunningKeyOnly => MovesAsStated

\* from an offset inside 0 .. max(0, contentWidth - viewportWidth) every key
\* moves as stated and the offset stays inside
C19_MovementFromInRange ==
    (RunningKeyOnly /\ pager.xOffset \in 0..MaxOffset(pager)) => MovesAsStated

\* the window grew under a scrolled text: the offset is above the maximum
C19_OffsetAboveMaximum ==
    /\ RunningKeyOnly /\ pager.ready
    /\ pager.xOffset > MaxOffset(pager)

\* a right key moved the text a full step and a left key can take it back
C19_FullStepTaken ==
    /\ RunningKeyOnly /\ pager.ready
    /\ pager.xOffset = scrollStep
    /\ pager.xOffset + scrollStep < MaxOffset(pager)

\* the characters of v at positions o .. o+w-1, counted from 0
Window(v, o, w) ==
    LET last == IF o + w < Len(v) THEN o + w ELSE Len(v)
    IN [k \in 1..(last - o) |-> v[o + k]]

\* C20: for every styled line, offset >= 0 and width >= 0, the visible
\* characters of sliceLine's result are exactly the visible characters of the
\* line at positions offset .. offset+width-1, in order, fewer when the line
\* is shorter; the lines the viewport shows are the paged lines sliced at the
\* current offset and width.
C20_SliceWindow ==
    RunningKeyOnly =>
        /\ \A i \in 1..Len(pager.content) :
              \A o \in 0..(MaxCols + 1) : \A w \in 0..(MaxCols + 1) :
                 VisibleOf(sliceLine(pager.content[i], o, w))
                     = Window(VisibleOf(pager.content[i]), o, w)
        /\ \A i \in 1..Len(pager.viewport.lines) :
              VisibleOf(pager.viewport.lines[i])
                  = Window(VisibleOf(pager.content[i]), pager.xOffset, pager.width)

\* a styled line was scrolled: the viewport shows its second character only,
\* with the styling sequence in front of it
C20_Witness ==
    /\ RunningKeyOnly /\ pager.ready
    /\ pager.xOffset = 1 /\ pager.width = 1
    /\ VisibleOf(pager.content[1]) = <<"a", "b">>
    /\ pager.viewport.lines[1] = SgrOn \o <<"b">>

\* the characters of the escape sequences of a line, in order
EscapesOf(line) ==
    LET Drop(i) == Hidden(line, i)
        idx == SelectSeq([i \in 1..Len(line) |-> i], Drop)
    IN [n \in 1..Len(idx) |-> line[idx[n]]]

IsPrefix(s, t) == Len(s) <= Len(t) /\ SubSeq(t, 1, Len(s)) = s

\* C21: every escape sequence of the line appears complete in sliceLine's
\* result, also those before the offset, after the last kept character or in a
\* line that lies entirely left of the offset.
C21_EscapesKept ==
    RunningKeyOnly =>
        \A i \in 1..Len(pager.content) :
            \A o \in 0..(MaxCols + 1) : \A w \in 0..(MaxCols + 1) :
                EscapesOf(sliceLine(pager.content[i], o, w)) = EscapesOf(pager.content[i])

\* the escape sequences of the result are the first ones of the line, each
\* complete: the sequences up to the last kept character are all there
C21_LeadingEscapesKept ==
    RunningKeyOnly =>
        \A i \in 1..Len(pager.content) :
            \A o \in 0..(MaxCols + 1) : \A w \in 0..(MaxCols + 1) :
                LET res == sliceLine(pager.content[i], o, w)
                    esc == EscapesOf(res)
                IN /\ IsPrefix(esc, EscapesOf(pager.content[i]))
                   /\ esc # <<>> => isLetter(esc[Len(esc)])

\* the viewport shows a styled line without the reset that ends it
C21_ResetDropped ==
    /\ RunningKeyOnly /\ pager.ready /\ pager.width > 0
    /\ Len(pager.viewport.lines) = 1
    /\ VisibleOf(pager.viewport.lines[1]) # <<>>
    /\ EscapesOf(pager.content[1]) = SgrOff
    /\ EscapesOf(pager.viewport.lines[1]) = <<>>

\* the escape sequences of a line, one after the other: the characters of
\* chars cut after each letter
RECURSIVE RunsFrom(_, _)
RunsFrom(chars, run) ==
    IF chars = <<>> THEN (IF run = <<>> THEN <<>> ELSE <<run>>)
    ELSE IF isLetter(Head(chars))
         THEN <<Append(run, Head(chars))>> \o RunsFrom(Tail(chars), <<>>)
         ELSE RunsFrom(Tail(chars), Append(run, Head(chars)))

EscapeRuns(line) == RunsFrom(EscapesOf(line), <<>>)

\* every element of s is found in t, in the same order
RECURSIVE IsSubsequence(_, _)
IsSubsequence(s, t) ==
    IF s = <<>> THEN TRUE
    ELSE IF t = <<>> THEN FALSE
    ELSE IF Head(s) = Head(t) THEN IsSubsequence(Tail(s), Tail(t))
    ELSE IsSubsequence(s, Tail(t))

\* the viewport holds one line for each line of the content
Shows == Running /\ Len(pager.viewport.lines) = Len(pager.content)

\* C22: with an active search term a line with matches is re-rendered from
\* its styled text: every escape sequence the line had before the search is
\* still in the highlighted line.
C22_StylingKept ==
    Shows =>
        \A l \in 1..Len(pager.content) :
            IsSubsequence(EscapeRuns(pager.content[l]), EscapeRuns(pager.viewport.lines[l]))

\* a line without a match is shown as it was; a line with matches is rebuilt
\* from its stripped text and carries highlight sequences only
C22_RebuiltFromPlain ==
    Shows =>
        \A l \in 1..Len(pager.content) :
            LET OnLine(x) == x.line = l - 1
            IN IF SelectSeq(pager.matches, OnLine) = <<>> \/ pager.searchTerm = <<>>
               THEN pager.viewport.lines[l] = pager.content[l]
               ELSE \A i \in 1..Len(EscapeRuns(pager.viewport.lines[l])) :
                       EscapeRuns(pager.viewport.lines[l])[i] \in {hlOn, curOn, styleOff}

\* a styled line is shown with a highlighted match and without its own styling
C22_StylingLost ==
    /\ Shows /\ pager.ready
    /\ pager.matches # <<>>
    /\ SgrOn \in {EscapeRuns(pager.content[1])[i] : i \in 1..Len(EscapeRuns(pager.content[1]))}
    /\ SgrOn \notin {EscapeRuns(pager.viewport.lines[1])[i] :
                        i \in 1..Len(EscapeRuns(pager.viewport.lines[1]))}

\* the keys pressed at the pager
AllKeys ==
    {"q", "esc", "ctrl+c", "enter", "backspace", "/", "n", "N", "p", "l", "h", "g", "G",
     "left", "right", "home", "end", "up", "down", "0", "$", "a", "A", "b"}

QuitKeys == {"q", "esc", "ctrl+c"}

\* C23: while the pager shows content and no search is being edited, each of
\* q, esc and ctrl+c ends the session, and no other key does.
C23_QuitKeys ==
    (Running /\ ~pager.searchMode) =>
        \A k \in AllKeys : Update(pager, Key(k), 0).quit <=> k \in QuitKeys

\* q and ctrl+c end the session, and no other key does; a key that does not
\* end it leaves the pager in normal mode unless it is /
C23_QuitKeysBound ==
    (Running /\ ~pager.searchMode) =>
        \A k \in AllKeys :
            /\ Update(pager, Key(k), 0).quit <=> k \in {"q", "ctrl+c"}
            /\ Update(pager, Key(k), 0).model.searchMode <=> k = "/"

\* the session was ended from normal mode
C23_SessionEnded == pc = "quit" /\ build = "main" /\ ~pager.searchMode

\* the pager of main.go was started
Started == build = "main" /\ pc \in {"pager", "quit"}

\* C24: after any sequence of pager events, whenever the match list is not
\* empty the current-match cursor is at least 0 and below the number of
\* matches.
C24_CursorInRange ==
    (Started /\ pager.matches # <<>>) =>
        pager.currentMatch \in 0..(Len(pager.matches) - 1)

\* a search was committed while the cursor of the previous search stood
\* beyond the end of the new, shorter match list
C24_Witness ==
    /\ Started /\ ~pager.searchMode
    /\ pager.matches # <<>>
    /\ opened # NoModel
    /\ opened.currentMatch >= Len(pager.matches)
    /\ pager.searchTerm # opened.searchTerm

\* the messages of the pager: the keys and the window sizes
AllMessages ==
    {Key(k) : k \in AllKeys} \cup {Size(w, h) : w \in 1..MaxCols, h \in 1..MaxRows}

\* C25: in every reachable pager state the match list is the result of
\* findMatches for the active term over the line snapshot (empty for the
\* empty term); no event changes the content or the stripped content; and no
\* event but Enter in the search box changes the active term or the matches.
C25_SearchStateConsistent ==
    Started =>
        /\ pager.matches = findMatches(pager.plainContent, pager.searchTerm)
        /\ pager.searchTerm = <<>> => pager.matches = <<>>
        /\ pager.content = output
        /\ pager.plainContent = [i \in 1..Len(output) |-> stripANSI(output[i])]
        /\ \A e \in AllMessages :
              LET after == Update(pager, e, 0).model
              IN /\ after.content = pager.content
                 /\ after.plainContent = pager.plainContent
                 /\ (e # Key("enter") \/ ~pager.searchMode) =>
                        /\ after.searchTerm = pager.searchTerm
                        /\ after.matches = pager.matches

\* a second term is being typed over a committed search that has matches
C25_Witness ==
    /\ Started /\ pager.searchMode
    /\ pager.matches # <<>>
    /\ pager.searchInput # <<>>
    /\ pager.searchInput # pager.searchTerm
    /\ findMatches(pager.plainContent, pager.searchInput) # pager.matches

\* C26: while a search is edited no key ends the session, q and ctrl+c go
\* to the text input; the search box closes only on Esc or on Enter for a
\* term with at least one match; and from every state Esc (when editing)
\* followed by q ends the session.
C26_QuitOnlyThroughNormal ==
    Running =>
        /\ pager.searchMode =>
              /\ \A e \in AllMessages :
                    LET r == Update(pager, e, 0)
                    IN /\ ~r.quit
                       /\ ~r.model.searchMode <=>
                             \/ e = Key("esc")
                             \/ /\ e = Key("enter")
                                /\ findMatches(pager.plainContent, pager.searchInput) # <<>>
              /\ Update(pager, Key("q"), 0).model.searchInput = Append(pager.searchInput, "q")
              /\ Update(pager, Key("ctrl+c"), 0).model.searchInput = pager.searchInput
        /\ LET normal == IF pager.searchMode THEN Update(pager, Key("esc"), 0).model
                         ELSE pager
           IN ~normal.searchMode /\ Update(normal, Key("q"), 0).quit

\* the session was ended after a search without a match had been given up
C26_Witness ==
    /\ pc = "quit" /\ build = "main"
    /\ ~pager.searchMode
    /\ pager.searchTerm # <<>> /\ pager.matches = <<>>

\* the pager of part_001 was started
StartedKeyOnly == build = "p001" /\ pc \in {"pager", "quit"}

\* C27: in every reachable state of the pager, after any interleaving of
\* horizontal keys and window sizes, the horizontal offset lies in
\* 0 .. max(0, contentWidth - width) for the current width.
C27_OffsetInRange ==
    StartedKeyOnly => pager.xOffset \in 0..MaxOffset(pager)

\* the offset is never negative and never beyond the width of the content,
\* and a window size leaves it as it is
C27_OffsetWithinContent ==
    StartedKeyOnly =>
        /\ pager.xOffset \in 0..pager.contentWidth
        /\ \A w \in 1..MaxCols :
              UpdateKeyOnly(pager, Size(w, MaxRows), 0).model.xOffset = pager.xOffset

\* keys arrived before the first window size, which then left the offset
\* above the maximum for its width
C27_ScrolledBeforeSized ==
    /\ StartedKeyOnly /\ pager.ready
    /\ pager.xOffset = pager.contentWidth
    /\ pager.xOffset > MaxOffset(pager)

----------------------------------------------------------------------------
(* Selection and rendering of multi-document input: parseInput's isMultiDoc *)
(* is handed to render unchanged.                                           *)

\* the documents of a stream
StreamDocs ==
    {vs, SeqV(<<vs>>), SeqV(<<vs, vn>>), MapV([k \in {ka} |-> vs]),
     MapV([k \in {ka} |-> SeqV(<<vs, vn>>)])}

StreamSelectors ==
    {<<".">>, <<".", "[", "0", "]">>, <<".", "[", "1", "]">>, <<".", "a">>,
     <<".", "[", "0", "]", ".", "a">>}

StreamInit ==
    /\ build = "main"
    /\ isMultiDoc \in BOOLEAN
    /\ data \in IF isMultiDoc
                THEN {SeqV(ds) : ds \in UNION {[1..n -> StreamDocs] : n \in 2..MaxDocs}}
                ELSE StreamDocs \cup {SeqV(<<SeqV(<<vs, vn>>), vs>>)}
    /\ selector \in StreamSelectors
    /\ format = "table"
    /\ details = FALSE
    /\ maxWidth = maxValueWidth
    /\ isTerm = FALSE
    /\ iter = <<kB, ka, kab>>
    /\ NoTerminal
    /\ Idle

StreamNext ==
    \/ ApplySelectorIdentity
    \/ ApplySelectorFanOut
    \/ ApplySelectorSplit
    \/ WalkSkip
    \/ WalkIndex
    \/ WalkKey
    \/ WalkDone
    \/ Render

StreamSpec == StreamInit /\ [][StreamNext]_vars

\* the selector begins with an index step
BeginsWithIndex == Len(selector) >= 2 /\ selector[1] = "." /\ selector[2] = "["

\* the selected value is the sequence of the documents or one result for each
PerDocument == isMultiDoc /\ ~BeginsWithIndex

OneTableEach == [i \in 1..Len(Elems(outcome.val)) |-> renderRecursive(Elems(outcome.val)[i], Options)]

OneTable == <<renderRecursive(outcome.val, Options)>>

\* C28: render makes one table for each element only when its value is the
\* sequence of the top-level documents or the per-document result of the
\* selector; a document picked with a leading index step is rendered as one
\* table even when it is a Sequence.
C28_SplitOnlyPerDocument ==
    (pc = "rendered" /\ build = "main") =>
        rendered = IF PerDocument THEN OneTableEach ELSE OneTable

\* render makes one table for each element exactly when the input had several
\* documents and the selected value is a Sequence, whatever selected it
C28_SplitFollowsFlag ==
    (pc = "rendered" /\ build = "main") =>
        rendered = IF isMultiDoc /\ IsSeq(outcome.val) THEN OneTableEach ELSE OneTable

\* a Sequence document picked by index was rendered as one table per element
C28_PickedDocumentSplit ==
    /\ pc = "rendered" /\ build = "main"
    /\ isMultiDoc /\ BeginsWithIndex
    /\ IsSeq(outcome.val) /\ Len(Elems(outcome.val)) = 2
    /\ Len(rendered) = 2

----------------------------------------------------------------------------
(* HTML output of maps whose keys hold markup characters.                   *)

MarkupKeys == {<<"<">>, <<"&">>, <<"a">>}

MarkupMaps == MapsOver(MarkupKeys, {vs, Str(<<"<">>)})

MarkupInit ==
    /\ build = "main"
    /\ data \in MarkupMaps \cup {SeqV(<<x>>) : x \in MarkupMaps}
    /\ isMultiDoc = FALSE
    /\ selector = <<".">>
    /\ format \in {"table", "html"}
    /\ details = FALSE
    /\ maxWidth = maxValueWidth
    /\ isTerm = FALSE
    /\ iter = <<<<"a">>, <<"<">>, <<"&">>>>
    /\ NoTerminal
    /\ Idle

MarkupNext ==
    \/ ApplySelectorIdentity
    \/ Render

MarkupSpec == MarkupInit /\ [][MarkupNext]_vars

\* the text has no < or > and every & in it begins one of the five entities
NoRawMarkup(t) ==
    \A i \in 1..Len(t) :
        /\ t[i] \notin {"<", ">"}
        /\ t[i] = "&" =>
              \E e \in {ampEntity, ltEntity, gtEntity, quotEntity, aposEntity} :
                  /\ i + Len(e) - 1 <= Len(t)
                  /\ SubSeq(t, i, i + Len(e) - 1) = e

\* the texts embedded in the cells and the column headers of the table
CellTexts ==
    UNION {{Shown.rows[i][j].text : j \in 1..Len(Shown.rows[i])} : i \in 1..Len(Shown.rows)}
        \cup {Shown.header[i] : i \in 1..Len(Shown.header)}

HtmlRendered == pc = "rendered" /\ build = "main" /\ format = "html"

\* C29: in HTML format every string taken from the input, keys in key cells
\* and in column headers as well as scalar values, is escaped before it is
\* put into a cell: no <, > or & of the input reaches the markup as it is.
C29_NoRawUserText == HtmlRendered => \A t \in CellTexts : NoRawMarkup(t)

\* scalar values under a key are escaped; the keys of a map are put into
\* the key cells, and the keys of the first item into the headers, as they are
C29_ValuesEscapedKeysRaw ==
    HtmlRendered =>
        /\ IsMap(data) =>
              \A i \in 1..Len(Shown.rows) :
                  /\ Shown.rows[i][1].text \in DOMAIN Fields(data)
                  /\ Shown.rows[i][2].text
                        = EscapedOnce(Fields(data)[Shown.rows[i][1].text][2])
        /\ IsSeq(data) =>
              /\ \A i \in 2..Len(Shown.header) : Shown.header[i] \in DOMAIN Fields(Elems(data)[1])
              /\ \A j \in 2..Len(Shown.rows[1]) :
                    Shown.rows[1][j].text
                        = EscapedOnce(Fields(Elems(data)[1])[Shown.header[j]][2])

\* the key < stands in a key cell of an HTML table as it is
C29_RawKey ==
    /\ HtmlRendered /\ IsMap(data)
    /\ \E i \in 1..Len(Shown.rows) :
          /\ Shown.rows[i][1].text = <<"<">>
          /\ Shown.rows[i][1].wrap = "span"
          /\ Shown.rows[i][2].text = ltEntity

----------------------------------------------------------------------------
(* truncateValue for every -w from 0 on.                                    *)

NarrowInit ==
    /\ build = "main"
    /\ data \in TextInputs(TextsOver({"a", " "}, MaxText))
    /\ isMultiDoc = FALSE
    /\ selector = <<".">>
    /\ format = "table"
    /\ details = FALSE
    /\ maxWidth \in 0..MaxWidth
    /\ isTerm = FALSE
    /\ iter = <<kB, ka, kab>>
    /\ NoTerminal
    /\ Idle

NarrowNext ==
    \/ ApplySelectorIdentity
    \/ Render

NarrowSpec == NarrowInit /\ [][NarrowNext]_vars

\* render has returned or panicked
RenderEnded == build = "main" /\ pc \in {"rendered", "panicked"}

\* C30: truncateValue yields a result whenever the normalized string is at
\* most maxWidth long or maxWidth is at least 3, the result being ... for
\* maxWidth = 3 and a longer string; for maxWidth 0, 1 or 2 and a normalized
\* string longer than maxWidth there is no result: the slice s[:maxWidth-3]
\* is out of range and the run aborts.
C30_NarrowWidths ==
    RenderEnded =>
        LET n == normalizeSpace(SourceText)
        IN /\ (Len(n) <= maxWidth \/ maxWidth >= 3) => pc = "rendered"
           /\ (pc = "rendered" /\ Len(n) <= maxWidth) => ShownText = n
           /\ (maxWidth = 3 /\ Len(n) > 3) => ShownText = Dots
           /\ (maxWidth \in {0, 1, 2} /\ Len(n) > maxWidth) => pc = "panicked" /\ rendered = <<>>

\* the run was aborted on three characters at width 2
C30_Witness ==
    /\ build = "main" /\ pc = "panicked"
    /\ maxWidth = 2
    /\ normalizeSpace(SourceText) = <<"a", "a", "a">>

====
